---- MODULE Spec2Model ----
(***************************************************************************)
(* Verification model of the sistema-ventas-paraguay frontend:             *)
(*   - the quote builder        (frontend/src/pages/Quotes.tsx, Quotes)    *)
(*   - the deposit ledger page  (frontend/src/pages/Quotes.tsx, Deposits)  *)
(*   - the auth / HTTP plumbing (services/api.ts, context/AuthContext.tsx, *)
(*                               components/Layout/Layout.tsx, Invoices)   *)
(*                                                                         *)
(* Money.  JavaScript numbers are modelled as exact integers.  A           *)
(* unit_price is held in whole currency units; every amount derived from a *)
(* price (line subtotal, quote subtotal, tax, total) is held in            *)
(* thousandths of a unit, so that the percent discount and the 10% tax are *)
(* exact: 270000 is held as 270000000.                                     *)
(***************************************************************************)
EXTENDS Integers, Sequences, FiniteSets, TLC

\* ------------------------------------------------------------------ bounds
MaxQuantity == 3      \* largest quantity a line is allowed to accumulate
MaxPending == 2       \* save requests the quote page keeps in flight
MaxDepositPending == 1 \* requests the deposit page keeps in flight
MaxDeposits == 1      \* deposits the backend stores before it rejects a create
MaxAuthPending == 2   \* requests the session layer keeps in flight
MaxCustomerPending == 1 \* calls of handleSubmit the customers page keeps in flight
MaxRows == 2              \* rows of the static quote form

\* null object references (editingQuote, selectedProduct, selectedDeposit) are
\* held as the id 0; every id the backend hands out is >= 1.

\* ======================================================================
\*  QUOTE BUILDER  (Quotes.tsx, component Quotes)
\* ======================================================================
VARIABLES
  products,         \* Quotes: useState<Product[]>  (id -> record)
  quotes,           \* Quotes: useState<Quote[]>    (id -> record), as loaded
  qDialogOpen,      \* Quotes: dialogOpen
  editingQuote,     \* Quotes: editingQuote (a quote id, 0 for null)
  quoteLines,       \* Quotes: quoteLines
  selectedProduct,  \* Quotes: selectedProduct (a product id, 0 for null)
  productQuantity,  \* Quotes: productQuantity
  productDiscount,  \* Quotes: productDiscount
  formData,         \* Quotes: formData (customer_id only)
  qLoading,         \* Quotes: loading
  qError,           \* Quotes: error
  quoteReq          \* the quote save requests in flight (a sequence)

quoteVars == <<products, quotes, qDialogOpen, editingQuote, quoteLines,
               selectedProduct, productQuantity, productDiscount, formData,
               qLoading, qError, quoteReq>>

ProductIds == {1, 2}

\* Values the user can type into the number fields of the builder.
\* Number(e.target.value) of an emptied field is 0.
TypedQuantities == {0, 1}
TypedDiscounts == {0, 10}
TypedLineQuantities == {0, 3}
TypedLinePrices == {100000}
TypedLineDiscounts == {10}

\* x || d of JavaScript, for numbers
OrElse(x, d) == IF x = 0 THEN d ELSE x

RECURSIVE SumSubtotals(_)
SumSubtotals(lines) ==
  IF lines = <<>> THEN 0
  ELSE OrElse(Head(lines).subtotal, 0) + SumSubtotals(Tail(lines))

\* quantity * unit_price * (1 - discount / 100), in thousandths
LineSubtotal(quantity, unit_price, discount) ==
  OrElse(quantity, 0) * OrElse(unit_price, 0) * (100 - OrElse(discount, 0)) * 10

\* line.product_id === id  ->  index of the first such line, 0 when none
FindIndex(lines, id) ==
  IF \E i \in 1..Len(lines) : lines[i].product_id = id
  THEN CHOOSE i \in 1..Len(lines) :
         /\ lines[i].product_id = id
         /\ \A j \in 1..(i - 1) : lines[j].product_id # id
  ELSE 0

\* The product catalogue the backend serves.  No request of the Quotes page
\* writes to it.
srvProducts ==
  (1 :> [unit_price |-> 100000, stock_quantity |-> 5]) @@
  (2 :> [unit_price |-> 2500, stock_quantity |-> 0])

\* A line as the backend returns it: product, quantity, price, discount and
\* the subtotal derived from them (data model, QuoteLine).
StoredLine(l) ==
  [product_id |-> l.product_id, quantity |-> l.quantity,
   unit_price |-> l.unit_price, discount |-> l.discount,
   subtotal |-> LineSubtotal(l.quantity, l.unit_price, l.discount)]

StoredLines(lines) == [i \in 1..Len(lines) |-> StoredLine(lines[i])]

\* The answers GET /quotes/ can give: the backend is shared, so a reload may
\* return any list of stored quotes.
ServerQuoteLists ==
  { <<>>,
    <<[customer_id |-> 1,
       lines |-> StoredLines(<<[product_id |-> 1, quantity |-> 1,
                                unit_price |-> 100000, discount |-> 0]>>)]>> }

QuoteInit ==
  /\ products = <<>>
  /\ quotes = <<>>
  /\ qDialogOpen = FALSE
  /\ editingQuote = 0
  /\ quoteLines = <<>>
  /\ selectedProduct = 0
  /\ productQuantity = 1
  /\ productDiscount = 0
  /\ formData = [customer_id |-> 0]
  /\ qLoading = TRUE
  /\ qError = ""
  /\ quoteReq = <<>>

\* The line objects of quoteLines carry obj: the index of the line of
\* quotes[editingQuote].lines that is the very same JavaScript object
\* (handleOpenDialog stores quote.lines itself), or 0 for an object of its own.
WithObj(lines) ==
  [i \in 1..Len(lines) |->
     [product_id |-> lines[i].product_id, quantity |-> lines[i].quantity,
      unit_price |-> lines[i].unit_price, discount |-> lines[i].discount,
      subtotal |-> lines[i].subtotal, obj |-> i]]

\* Quotes.loadData, run by useEffect on mount.
Quotes_loadData ==
  /\ qLoading
  /\ quoteReq = <<>>
  /\ \/ /\ quotes' \in ServerQuoteLists
        /\ products' = srvProducts
        /\ qError' = qError
     \/ /\ qError' = "Error al cargar datos"
        /\ UNCHANGED <<quotes, products>>
  /\ qLoading' = FALSE
  /\ UNCHANGED <<qDialogOpen, editingQuote, quoteLines, selectedProduct,
                 productQuantity, productDiscount, formData, quoteReq>>

Quotes_handleOpenDialog(quote) ==
  /\ ~qLoading
  /\ ~qDialogOpen
  /\ quoteReq = <<>>
  /\ IF quote # 0
     THEN /\ editingQuote' = quote
          /\ formData' = [customer_id |-> quotes[quote].customer_id]
          /\ quoteLines' = WithObj(quotes[quote].lines)
     ELSE /\ editingQuote' = 0
          /\ formData' = [customer_id |-> 0]
          /\ quoteLines' = <<>>
  /\ qDialogOpen' = TRUE
  /\ UNCHANGED <<products, quotes, selectedProduct, productQuantity,
                 productDiscount, qLoading, qError, quoteReq>>

Quotes_handleCloseDialog ==
  /\ ~qLoading
  /\ qDialogOpen
  /\ qDialogOpen' = FALSE
  /\ editingQuote' = 0
  /\ quoteLines' = <<>>
  /\ selectedProduct' = 0
  /\ productQuantity' = 1
  /\ productDiscount' = 0
  /\ UNCHANGED <<products, quotes, formData, qLoading, qError, quoteReq>>

\* The model explores the line editor only while no save is in flight.
Editing == ~qLoading /\ qDialogOpen /\ quoteReq = <<>>

\* The fields of the "add product" row and the customer selector.
Quotes_setSelectedProduct(value) ==
  /\ Editing
  /\ selectedProduct' = value
  /\ UNCHANGED <<products, quotes, qDialogOpen, editingQuote, quoteLines,
                 productQuantity, productDiscount, formData, qLoading, qError,
                 quoteReq>>

Quotes_setProductQuantity(value) ==
  /\ Editing
  /\ productQuantity' = value
  /\ UNCHANGED <<products, quotes, qDialogOpen, editingQuote, quoteLines,
                 selectedProduct, productDiscount, formData, qLoading, qError,
                 quoteReq>>

Quotes_setProductDiscount(value) ==
  /\ Editing
  /\ productDiscount' = value
  /\ UNCHANGED <<products, quotes, qDialogOpen, editingQuote, quoteLines,
                 selectedProduct, productQuantity, formData, qLoading, qError,
                 quoteReq>>

Quotes_setCustomer(value) ==
  /\ Editing
  /\ formData' = [customer_id |-> value]
  /\ UNCHANGED <<products, quotes, qDialogOpen, editingQuote, quoteLines,
                 selectedProduct, productQuantity, productDiscount, qLoading, qError,
                 quoteReq>>

\* A line object without its identity tag, as quotes[..].lines holds it.
Plain(l) ==
  [product_id |-> l.product_id, quantity |-> l.quantity,
   unit_price |-> l.unit_price, discount |-> l.discount, subtotal |-> l.subtotal]

\* (mutant) the subtotal of the existing line is recomputed with the discount
\* the line had, not the one just assigned to it.
AddToExistingLine_staleDiscount(i) ==
  LET old == quoteLines[i]
      qty == old.quantity + productQuantity
      new == [old EXCEPT !.quantity = qty,
                         !.discount = productDiscount,
                         !.subtotal = LineSubtotal(qty, old.unit_price, old.discount)]
  IN /\ qty <= MaxQuantity
     /\ quoteLines' = [quoteLines EXCEPT ![i] = new]
     /\ quotes' = IF old.obj # 0
                  THEN [quotes EXCEPT ![editingQuote].lines[old.obj] = Plain(new)]
                  ELSE quotes

\* handleAddProduct, branch existingLineIndex >= 0: the line OBJECT is updated
\* in place ([...quoteLines] copies the array, not its objects), so a line
\* that came from quote.lines changes in the loaded quote as well.
AddToExistingLine(i) ==
  LET old == quoteLines[i]
      qty == old.quantity + productQuantity
      new == [old EXCEPT !.quantity = qty,
                         !.discount = productDiscount,
                         !.subtotal = LineSubtotal(qty, old.unit_price, productDiscount)]
  IN /\ qty <= MaxQuantity
     /\ quoteLines' = [quoteLines EXCEPT ![i] = new]
     /\ quotes' = IF old.obj # 0
                  THEN [quotes EXCEPT ![editingQuote].lines[old.obj] = Plain(new)]
                  ELSE quotes

\* handleAddProduct, branch "Agregar nueva linea - NO AFECTA STOCK"
AddNewLine ==
  LET newLine == [product_id |-> selectedProduct,
                  quantity |-> OrElse(productQuantity, 1),
                  unit_price |-> OrElse(products[selectedProduct].unit_price, 0),
                  discount |-> OrElse(productDiscount, 0),
                  subtotal |-> OrElse(productQuantity, 1)
                               * OrElse(products[selectedProduct].unit_price, 0)
                               * (100 - OrElse(productDiscount, 0)) * 10,
                  obj |-> 0]
  IN /\ quoteLines' = Append(quoteLines, newLine)
     /\ quotes' = quotes

\* (mutant) adding to a quote takes the quantity out of the product's stock.
Quotes_handleAddProduct_takesStock ==
  /\ Editing
  /\ selectedProduct # 0
  /\ productQuantity > 0
  /\ LET existingLineIndex == FindIndex(quoteLines, selectedProduct)
     IN IF existingLineIndex >= 1
        THEN AddToExistingLine(existingLineIndex)
        ELSE AddNewLine
  /\ products' = [products EXCEPT ![selectedProduct].stock_quantity = @ - productQuantity]
  /\ selectedProduct' = 0
  /\ productQuantity' = 1
  /\ productDiscount' = 0
  /\ UNCHANGED <<qDialogOpen, editingQuote, formData, qLoading, qError, quoteReq>>

\* The button is disabled={!selectedProduct || productQuantity <= 0}.
Quotes_handleAddProduct ==
  /\ Editing
  /\ selectedProduct # 0
  /\ productQuantity > 0
  /\ LET existingLineIndex == FindIndex(quoteLines, selectedProduct)
     IN IF existingLineIndex >= 1
        THEN AddToExistingLine(existingLineIndex)
        ELSE AddNewLine
  /\ selectedProduct' = 0
  /\ productQuantity' = 1
  /\ productDiscount' = 0
  /\ UNCHANGED <<products, qDialogOpen, editingQuote, formData, qLoading,
                 qError, quoteReq>>

Quotes_handleRemoveProduct(productId) ==
  /\ Editing
  /\ \E i \in 1..Len(quoteLines) : quoteLines[i].product_id = productId
  /\ LET Keep(line) == line.product_id # productId
     IN quoteLines' = SelectSeq(quoteLines, Keep)
  /\ UNCHANGED <<products, quotes, qDialogOpen, editingQuote,
                 selectedProduct, productQuantity, productDiscount, formData,
                 qLoading, qError, quoteReq>>

\* handleUpdateLine: { ...updatedLines[index], [field]: value } is a new object.
UpdatedLine(line, field, value) ==
  LET set == [[line EXCEPT ![field] = value] EXCEPT !.obj = 0]
  IN IF field \in {"quantity", "unit_price", "discount"}
     THEN [set EXCEPT !.subtotal =
             OrElse(set.quantity, 0) * OrElse(set.unit_price, 0)
             * (100 - OrElse(set.discount, 0)) * 10]
     ELSE set

Quotes_handleUpdateLine(index, field, value) ==
  /\ Editing
  /\ index \in 1..Len(quoteLines)
  /\ quoteLines' = [quoteLines EXCEPT ![index] = UpdatedLine(quoteLines[index], field, value)]
  /\ UNCHANGED <<products, quotes, qDialogOpen, editingQuote,
                 selectedProduct, productQuantity, productDiscount, formData,
                 qLoading, qError, quoteReq>>

\* The three number fields of a line row, each wired to handleUpdateLine.
Quotes_editLineField ==
  \E index \in 1..Len(quoteLines) :
    \/ \E value \in TypedLineQuantities : Quotes_handleUpdateLine(index, "quantity", value)
    \/ \E value \in TypedLinePrices : Quotes_handleUpdateLine(index, "unit_price", value)
    \/ \E value \in TypedLineDiscounts : Quotes_handleUpdateLine(index, "discount", value)

\* (mutant) the tax is taken on the first line only.
calculateTotals_taxFirstLine(lines) ==
  LET subtotal == SumSubtotals(lines)
      taxAmount == IF lines = <<>> THEN 0 ELSE OrElse(Head(lines).subtotal, 0) \div 10
      total == subtotal + taxAmount
  IN [subtotal |-> subtotal, taxAmount |-> taxAmount, total |-> total]

calculateTotals(lines) ==
  LET subtotal == SumSubtotals(lines)
      taxAmount == subtotal \div 10
      total == subtotal + taxAmount
  IN [subtotal |-> subtotal, taxAmount |-> taxAmount, total |-> total]

SentLines(lines) ==
  [i \in 1..Len(lines) |->
     [product_id |-> lines[i].product_id, quantity |-> lines[i].quantity,
      unit_price |-> lines[i].unit_price, discount |-> lines[i].discount]]

\* handleSubmit up to its first await: the request is built and sent.
\* The button is disabled={!formData.customer_id || quoteLines.length === 0}.
Quotes_handleSubmit ==
  /\ ~qLoading /\ qDialogOpen
  /\ formData.customer_id # 0
  /\ Len(quoteLines) > 0
  /\ Len(quoteReq) < MaxPending
  /\ LET totals == calculateTotals(quoteLines)
     IN quoteReq' = Append(quoteReq, [id |-> editingQuote,
                     customer_id |-> formData.customer_id,
                     lines |-> SentLines(quoteLines),
                     subtotal |-> totals.subtotal,
                     tax_amount |-> totals.taxAmount,
                     total_amount |-> totals.total])
  /\ UNCHANGED <<products, quotes, qDialogOpen, editingQuote, quoteLines,
                 selectedProduct, productQuantity, productDiscount, formData,
                 qLoading, qError>>

\* updateQuote / createQuote answered 2xx; handleSubmit goes on to loadData
\* (its spinner replaces the page until it returns) and handleCloseDialog.
Quotes_handleSubmit_saved ==
  /\ quoteReq # <<>>
  /\ \/ /\ quotes' \in ServerQuoteLists
        /\ products' = srvProducts
        /\ qError' = qError
     \/ /\ qError' = "Error al cargar datos"
        /\ UNCHANGED <<quotes, products>>
  /\ quoteReq' = Tail(quoteReq)
  /\ qLoading' = FALSE
  /\ qDialogOpen' = FALSE
  /\ editingQuote' = 0
  /\ quoteLines' = <<>>
  /\ selectedProduct' = 0
  /\ productQuantity' = 1
  /\ productDiscount' = 0
  /\ UNCHANGED formData

\* updateQuote / createQuote rejected: the catch block of handleSubmit.
Quotes_handleSubmit_failed ==
  /\ quoteReq # <<>>
  /\ quoteReq' = Tail(quoteReq)
  /\ qError' = "Error al guardar cotización"
  /\ UNCHANGED <<products, quotes, qDialogOpen, editingQuote, quoteLines,
                 selectedProduct, productQuantity, productDiscount, formData,
                 qLoading>>


\* ----------------------------------------------------------------------
\*  Claims about the quote builder
\* ----------------------------------------------------------------------

\* quantity * unit_price * (1 - discount/100), computed from the three fields
\* of a line and independently of the subtotal the line stores (thousandths).
ExpectedSubtotal(line) == line.quantity * line.unit_price * (100 - line.discount) * 10

RECURSIVE SumExpected(_)
SumExpected(lines) ==
  IF lines = <<>> THEN 0 ELSE ExpectedSubtotal(Head(lines)) + SumExpected(Tail(lines))

\* C2: every line of the quote builder's line list has
\* subtotal = quantity * unit_price * (1 - discount/100), whatever sequence of
\* open (new or existing quote), add product (new or existing line), line
\* edits and removals led to the list.
C2_LineSubtotalInvariant ==
  \A i \in 1..Len(quoteLines) : quoteLines[i].subtotal = ExpectedSubtotal(quoteLines[i])

\* C2 witness: an existing quote is being edited, its list holds two lines,
\* one whose price was edited away from the product's price and whose
\* quantity was accumulated by a second add, and one carrying a discount.
C2_Witness ==
  /\ editingQuote # 0
  /\ Len(quoteLines) = 2
  /\ \E i \in 1..2 : /\ quoteLines[i].unit_price # products[quoteLines[i].product_id].unit_price
                     /\ quoteLines[i].quantity = 2
  /\ \E j \in 1..2 : quoteLines[j].discount = 10 /\ quoteLines[j].subtotal # 0

\* C3: the totals shown for the current lines, and the totals of every save
\* request, are subtotal = sum of the line subtotals, tax = 10% of it and
\* total = subtotal + tax; one line {3, 100000, 10%} gives
\* 270000 / 27000 / 297000.
C3_TotalsOfLines(lines, subtotal, tax, total) ==
  /\ subtotal = SumExpected(lines)
  /\ tax * 10 = subtotal
  /\ total = subtotal + tax
  /\ (Len(lines) = 1 /\ lines[1].quantity = 3 /\ lines[1].unit_price = 100000
        /\ lines[1].discount = 10)
       => (subtotal = 270000000 /\ tax = 27000000 /\ total = 297000000)

C3_QuoteTotals ==
  /\ LET totals == calculateTotals(quoteLines)
     IN C3_TotalsOfLines(quoteLines, totals.subtotal, totals.taxAmount, totals.total)
  /\ \A k \in 1..Len(quoteReq) :
       C3_TotalsOfLines(quoteReq[k].lines, quoteReq[k].subtotal,
                        quoteReq[k].tax_amount, quoteReq[k].total_amount)

\* C3 witness: a save request is in flight for the one-line quote of the
\* example, and one for a quote of two lines.
C3_Witness ==
  /\ quoteReq # <<>>
  /\ Len(quoteReq[1].lines) = 1
  /\ quoteReq[1].lines[1].quantity = 3
  /\ quoteReq[1].lines[1].unit_price = 100000
  /\ quoteReq[1].lines[1].discount = 10
  /\ quoteReq[1].total_amount = 297000000

\* C4: adding a product (new line or existing line), editing a line and
\* removing a line leave the stock_quantity of every loaded product as it
\* was, and a save request carries no stock quantity.
C4_LineMutation ==
  \/ Quotes_handleAddProduct
  \/ \E productId \in ProductIds : Quotes_handleRemoveProduct(productId)
  \/ Quotes_editLineField

C4_RequestHasNoStock ==
  \A k \in 1..Len(quoteReq) :
    /\ "stock_quantity" \notin DOMAIN quoteReq[k]
    /\ \A i \in 1..Len(quoteReq[k].lines) :
         DOMAIN quoteReq[k].lines[i] = {"product_id", "quantity", "unit_price", "discount"}

C4_StockUnchanged ==
  /\ [][C4_LineMutation =>
          /\ DOMAIN products' = DOMAIN products
          /\ \A p \in DOMAIN products :
               products'[p].stock_quantity = products[p].stock_quantity]_quoteVars
  /\ []C4_RequestHasNoStock

\* C4 witness: product 1 was added twice (second time onto its existing
\* line), the quote is being saved, and the product's stock is what was loaded.
C4_Witness ==
  /\ quoteReq # <<>>
  /\ \E i \in 1..Len(quoteLines) :
       /\ quoteLines[i].product_id = 1
       /\ quoteLines[i].quantity = 2
       /\ quoteLines[i].obj = 0
  /\ products[1].stock_quantity = 5

\* ======================================================================
\*  DEPOSIT LEDGER  (Quotes.tsx, component Deposits; backend handlers of
\*  /deposits, /deposits/{id}/apply-to-invoice and /deposits/{id}/refund)
\* ======================================================================
VARIABLES
  srvDeposits,       \* backend: the deposits, a sequence indexed by id
  srvInvoices,       \* backend: the invoices, indexed by id
  canManageDeposits, \* user?.can_manage_deposits of the logged-in user
  deposits,          \* Deposits: deposits, as loaded
  dLoading,          \* Deposits: loading
  dError,            \* Deposits: error
  dDialogOpen,       \* Deposits: dialogOpen
  dFormData,         \* Deposits: formData (customer_id, amount)
  actionDialogOpen,  \* Deposits: actionDialogOpen
  selectedDeposit,   \* Deposits: selectedDeposit (the row object; id 0 for null)
  actionType,        \* Deposits: actionType
  actionData,        \* Deposits: actionData
  depReq             \* the requests of the page in flight (a sequence)

depositVars == <<srvDeposits, srvInvoices, canManageDeposits, deposits, dLoading,
                 dError, dDialogOpen, dFormData, actionDialogOpen, selectedDeposit,
                 actionType, actionData, depReq>>

\* ======================================================================
\*  Session state of the React application (api.ts, AuthContext.tsx,
\*  App.tsx, Layout.tsx) and of the static application (dashboard.js).
\*  A missing token or user is the empty string.
\* ======================================================================
VARIABLES
  localStorage_token,     \* localStorage item 'token'
  token,                  \* ApiService.token
  user,                   \* AuthContext user
  isLoading,              \* AuthContext isLoading
  location,               \* route shown by the Router
  authReqs,               \* HTTP requests of the React application in flight
  invError,               \* Invoices page: error
  processingAction,       \* Invoices page: processingAction
  localStorage_authToken, \* localStorage item 'authToken' (static application)
  authToken,              \* dashboard.js: authToken
  currentUser,            \* dashboard.js: currentUser
  sScreen,                \* section shown by showLogin / showApp
  sReqs                   \* fetches of the static application in flight

reactVars == <<localStorage_token, token, user, isLoading, location, authReqs,
               invError, processingAction>>
staticVars == <<localStorage_authToken, authToken, currentUser, sScreen, sReqs>>
authVars == <<reactVars, staticVars>>


\* ======================================================================
\*  State of the company settings page (CompanySettings) and of the
\*  settings the backend stores.
\* ======================================================================
VARIABLES
  role,               \* user.role of the signed-in user
  srvHasSettings,     \* the backend holds a configuration
  srvSettings,        \* the configuration the backend holds
  settings,           \* CompanySettings: settings
  csLoading,          \* CompanySettings: loading
  saving,             \* CompanySettings: saving
  csError,            \* CompanySettings: error
  success,            \* CompanySettings: success
  isNewConfiguration, \* CompanySettings: isNewConfiguration
  csReq               \* requests of the page in flight

settingsVars == <<role, srvHasSettings, srvSettings, settings, csLoading, saving,
                  csError, success, isNewConfiguration, csReq>>

\* ======================================================================
\*  State of the customers page (Customers) and of the browser's clock.
\* ======================================================================
VARIABLES
  now,              \* the instant new Date() returns, in hours since day 0, UTC
  tz,               \* offset of the browser's time zone from UTC, in hours
  customers,        \* Customers: customers
  cuLoading,        \* Customers: loading
  cuError,          \* Customers: error
  cuDialogOpen,     \* Customers: dialogOpen
  editingCustomer,  \* Customers: editingCustomer (id 0 is null)
  selectedFile,     \* Customers: selectedFile
  fileError,        \* Customers: fileError
  submitting,       \* Customers: submitting
  cuFormData,       \* Customers: formData
  custReq,          \* calls of loadCustomers and handleSubmit waiting for an answer
  can_create_customers  \* user.can_create_customers of the signed-in user

clockVars == <<now, tz>>
customerVars == <<clockVars, customers, cuLoading, cuError, cuDialogOpen,
                  editingCustomer, selectedFile, fileError, submitting,
                  cuFormData, custReq, can_create_customers>>

\* ======================================================================
\*  What the customer list and the product list show for an expiry date.
\* ======================================================================
VARIABLES
  expiryDate,       \* the expiry date string of the row
  regimeChip,       \* Customers row: isRegimeExpired, isRegimeExpiringSoon
  productChip       \* Products row: isExpired, isExpiringSoon

expiryVars == <<expiryDate, regimeChip, productChip>>

\* ======================================================================
\*  One line of the quote builder and one item row of the static quote
\*  form, with unit prices in hundredths of the currency unit.
\* ======================================================================
VARIABLES
  builderLine,      \* Quotes: quoteLines[index]
  itemRow,          \* dashboard.js: inputs quantity_i, unit_price_i, discount_i
  itemTotal         \* dashboard.js: the amount span itemTotal_i shows

calcVars == <<builderLine, itemRow, itemTotal>>

\* ======================================================================
\*  State of the quote form of the static application (dashboard.js,
\*  modal addQuoteModal).
\* ======================================================================
VARIABLES
  qfOpen,           \* the modal is shown
  qfRows,           \* the rows of tbody quoteItemsBody, in document order
  qfShown,          \* the amounts quoteSubtotal, quoteTax and quoteTotal show
  qfReq,            \* POST /api/quotes/ requests waiting for an answer
  qfNotice          \* the last notification shown

formVars == <<qfOpen, qfRows, qfShown, qfReq, qfNotice>>

\* ======================================================================
\*  State of the analytics dashboard of the static application
\*  (dashboard.js, first script).
\* ======================================================================
VARIABLES
  dashStoredToken,  \* localStorage 'authToken' as the dashboard page finds it
  dashLocation,     \* the document the browser shows: "/dashboard" or "/"
  dashPending,      \* the apiCall requests waiting for an answer
  dashPanels,       \* what each panel of the dashboard holds
  dashSection       \* the section shown

dashVars == <<dashStoredToken, dashLocation, dashPending, dashPanels, dashSection>>

vars == <<quoteVars, depositVars, authVars, settingsVars, customerVars, expiryVars,
          calcVars, formVars, dashVars>>

NoDeposit == [id |-> 0, amount |-> 0, available_amount |-> 0, status |-> ""]

\* Values typed into the amount, invoice id and reason fields.
TypedDepositAmounts == {0, 500000}
TypedActionAmounts == {200000, 300000, 600000}
TypedInvoiceIds == {0, 1, 2}
TypedReasons == {"", "devolucion"}

\* Requests another session of the same backend sends.
OtherAmounts == {200000}

InitialInvoices ==
  <<[total_amount |-> 300000, paid_amount |-> 0, balance_due |-> 300000],
    [total_amount |-> 500000, paid_amount |-> 0, balance_due |-> 500000]>>

DepositInit ==
  /\ srvDeposits = <<>>
  /\ srvInvoices = InitialInvoices
  /\ canManageDeposits \in BOOLEAN
  /\ deposits = <<>>
  /\ dLoading = TRUE
  /\ dError = ""
  /\ dDialogOpen = FALSE
  /\ dFormData = [customer_id |-> 0, amount |-> 0]
  /\ actionDialogOpen = FALSE
  /\ selectedDeposit = NoDeposit
  /\ actionType = "apply"
  /\ actionData = [amount |-> 0, invoice_id |-> 0, reason |-> ""]
  /\ depReq = <<>>

\* ---- backend (not part of the sources; from sections 3, 4.2 and 4.3) ----

\* POST /deposits/: created ACTIVE with available_amount = amount.
CreateAccepted(amount) == amount > 0 /\ Len(srvDeposits) < MaxDeposits

DepositsAfterCreate(amount) ==
  Append(srvDeposits, [id |-> Len(srvDeposits) + 1, amount |-> amount,
                       available_amount |-> amount, status |-> "ACTIVE"])

\* (mutant) the backend does not compare the amount with what is available.
Depletable_unchecked(id, amount) ==
  /\ id \in 1..Len(srvDeposits)
  /\ srvDeposits[id].status = "ACTIVE"
  /\ amount > 0

\* The precondition of apply-to-invoice and refund: amount <= available_amount,
\* of a deposit that is still ACTIVE; an action depletes the deposit.
Depletable(id, amount) ==
  /\ id \in 1..Len(srvDeposits)
  /\ srvDeposits[id].status = "ACTIVE"
  /\ amount > 0
  /\ amount <= srvDeposits[id].available_amount

ApplyAccepted(id, invoice_id, amount) ==
  /\ Depletable(id, amount)
  /\ invoice_id \in 1..Len(srvInvoices)

RefundAccepted(id, amount, reason) ==
  /\ Depletable(id, amount)
  /\ reason # ""

\* deposit.available_amount -= amount; the status follows when it reaches 0.
DepositsAfter(id, amount, exhausted) ==
  LET left == srvDeposits[id].available_amount - amount
  IN [srvDeposits EXCEPT ![id].available_amount = left,
                         ![id].status = IF left = 0 THEN exhausted ELSE @]

\* (mutant) the payment is recorded but the balance due is left as it was.
InvoicesAfterApply_staleBalance(invoice_id, amount) ==
  [srvInvoices EXCEPT ![invoice_id].paid_amount = @ + amount]

\* invoice.paid_amount += amount; balance_due = total_amount - paid_amount.
InvoicesAfterApply(invoice_id, amount) ==
  LET paid == srvInvoices[invoice_id].paid_amount + amount
  IN [srvInvoices EXCEPT ![invoice_id].paid_amount = paid,
                         ![invoice_id].balance_due =
                            srvInvoices[invoice_id].total_amount - paid]

\* ---- the Deposits page ----

\* Deposits.loadData, run by useEffect on mount.
Deposits_loadData ==
  /\ dLoading
  /\ depReq = <<>>
  /\ \/ deposits' = srvDeposits /\ dError' = dError
     \/ deposits' = deposits /\ dError' = "Error al cargar depósitos"
  /\ dLoading' = FALSE
  /\ UNCHANGED <<srvDeposits, srvInvoices, canManageDeposits, dDialogOpen, dFormData,
                 actionDialogOpen, selectedDeposit, actionType, actionData, depReq>>

\* "Nuevo Deposito" is disabled={!user?.can_manage_deposits}.
Deposits_handleOpenDialog ==
  /\ ~dLoading /\ ~dDialogOpen /\ ~actionDialogOpen
  /\ canManageDeposits
  /\ dFormData' = [customer_id |-> 0, amount |-> 0]
  /\ dDialogOpen' = TRUE
  /\ UNCHANGED <<srvDeposits, srvInvoices, canManageDeposits, deposits, dLoading,
                 dError, actionDialogOpen, selectedDeposit, actionType, actionData,
                 depReq>>

Deposits_handleCloseDialog ==
  /\ ~dLoading /\ dDialogOpen
  /\ dDialogOpen' = FALSE
  /\ UNCHANGED <<srvDeposits, srvInvoices, canManageDeposits, deposits, dLoading,
                 dError, dFormData, actionDialogOpen, selectedDeposit, actionType,
                 actionData, depReq>>

\* The customer and amount fields of the create dialog.
Deposits_setFormData(field, value) ==
  /\ ~dLoading /\ dDialogOpen
  /\ dFormData' = [dFormData EXCEPT ![field] = value]
  /\ UNCHANGED <<srvDeposits, srvInvoices, canManageDeposits, deposits, dLoading,
                 dError, dDialogOpen, actionDialogOpen, selectedDeposit, actionType,
                 actionData, depReq>>

\* handleSubmit up to its await: createDeposit(formData) is sent.
\* "Crear Deposito" is disabled={!formData.customer_id || !formData.amount}.
Deposits_handleSubmit ==
  /\ ~dLoading /\ dDialogOpen
  /\ dFormData.customer_id # 0
  /\ dFormData.amount # 0
  /\ Len(depReq) < MaxDepositPending
  /\ depReq' = Append(depReq, [kind |-> "create", deposit_id |-> 0, invoice_id |-> 0,
                               amount |-> dFormData.amount, reason |-> ""])
  /\ UNCHANGED <<srvDeposits, srvInvoices, canManageDeposits, deposits, dLoading,
                 dError, dDialogOpen, dFormData, actionDialogOpen, selectedDeposit,
                 actionType, actionData>>

\* (mutant) the two icon buttons are rendered for every ACTIVE row.
Deposits_handleOpenActionDialog_anyActive(row, action) ==
  /\ ~dLoading /\ ~dDialogOpen /\ ~actionDialogOpen
  /\ row \in 1..Len(deposits)
  /\ deposits[row].status # ""
  /\ selectedDeposit' = deposits[row]
  /\ actionType' = action
  /\ actionData' = [amount |-> IF action = "apply" THEN deposits[row].available_amount ELSE 0,
                    invoice_id |-> 0,
                    reason |-> ""]
  /\ actionDialogOpen' = TRUE
  /\ UNCHANGED <<srvDeposits, srvInvoices, canManageDeposits, deposits, dLoading,
                 dError, dDialogOpen, dFormData, depReq>>

\* The two icon buttons of a row are rendered when
\* deposit.status === 'ACTIVE' && deposit.available_amount > 0.
Deposits_handleOpenActionDialog(row, action) ==
  /\ ~dLoading /\ ~dDialogOpen /\ ~actionDialogOpen
  /\ row \in 1..Len(deposits)
  /\ deposits[row].status = "ACTIVE"
  /\ deposits[row].available_amount > 0
  /\ selectedDeposit' = deposits[row]
  /\ actionType' = action
  /\ actionData' = [amount |-> IF action = "apply" THEN deposits[row].available_amount ELSE 0,
                    invoice_id |-> 0,
                    reason |-> ""]
  /\ actionDialogOpen' = TRUE
  /\ UNCHANGED <<srvDeposits, srvInvoices, canManageDeposits, deposits, dLoading,
                 dError, dDialogOpen, dFormData, depReq>>

Deposits_handleCloseActionDialog ==
  /\ ~dLoading /\ actionDialogOpen
  /\ actionDialogOpen' = FALSE
  /\ selectedDeposit' = NoDeposit
  /\ UNCHANGED <<srvDeposits, srvInvoices, canManageDeposits, deposits, dLoading,
                 dError, dDialogOpen, dFormData, actionType, actionData, depReq>>

\* The amount, invoice id and reason fields of the action dialog.  The amount
\* field carries inputProps {max: selectedDeposit.available_amount, min: 0};
\* its onChange stores Number(e.target.value) whatever the value.
Deposits_setActionData(field, value) ==
  /\ ~dLoading /\ actionDialogOpen
  /\ selectedDeposit.id # 0
  /\ field = "invoice_id" => actionType = "apply"
  /\ field = "reason" => actionType = "refund"
  /\ actionData' = [actionData EXCEPT ![field] = value]
  /\ UNCHANGED <<srvDeposits, srvInvoices, canManageDeposits, deposits, dLoading,
                 dError, dDialogOpen, dFormData, actionDialogOpen, selectedDeposit,
                 actionType, depReq>>

\* (mutant) the reason is not part of the disabled rule.
ActionButtonEnabled_noReason ==
  /\ actionData.amount # 0
  /\ ~(actionType = "apply" /\ actionData.invoice_id = 0)

\* The action button is disabled={!actionData.amount ||
\*   (actionType === 'apply' && !actionData.invoice_id) ||
\*   (actionType === 'refund' && !actionData.reason)}.
ActionButtonEnabled ==
  /\ actionData.amount # 0
  /\ ~(actionType = "apply" /\ actionData.invoice_id = 0)
  /\ ~(actionType = "refund" /\ actionData.reason = "")

\* handleApplyDeposit up to its await.
Deposits_handleApplyDeposit ==
  /\ ~dLoading /\ actionDialogOpen
  /\ actionType = "apply"
  /\ ActionButtonEnabled
  /\ selectedDeposit.id # 0
  /\ Len(depReq) < MaxDepositPending
  /\ depReq' = Append(depReq, [kind |-> "apply", deposit_id |-> selectedDeposit.id,
                               invoice_id |-> actionData.invoice_id,
                               amount |-> actionData.amount, reason |-> ""])
  /\ UNCHANGED <<srvDeposits, srvInvoices, canManageDeposits, deposits, dLoading,
                 dError, dDialogOpen, dFormData, actionDialogOpen, selectedDeposit,
                 actionType, actionData>>

\* handleRefundDeposit up to its await.
Deposits_handleRefundDeposit ==
  /\ ~dLoading /\ actionDialogOpen
  /\ actionType = "refund"
  /\ ActionButtonEnabled
  /\ selectedDeposit.id # 0
  /\ Len(depReq) < MaxDepositPending
  /\ depReq' = Append(depReq, [kind |-> "refund", deposit_id |-> selectedDeposit.id,
                               invoice_id |-> 0,
                               amount |-> actionData.amount,
                               reason |-> actionData.reason])
  /\ UNCHANGED <<srvDeposits, srvInvoices, canManageDeposits, deposits, dLoading,
                 dError, dDialogOpen, dFormData, actionDialogOpen, selectedDeposit,
                 actionType, actionData>>

\* What the backend does with a request it accepts.
Accepted(req) ==
  CASE req.kind = "create" -> CreateAccepted(req.amount)
    [] req.kind = "apply" -> ApplyAccepted(req.deposit_id, req.invoice_id, req.amount)
    [] req.kind = "refund" -> RefundAccepted(req.deposit_id, req.amount, req.reason)

ServerHandles(req) ==
  CASE req.kind = "create" ->
         /\ srvDeposits' = DepositsAfterCreate(req.amount)
         /\ srvInvoices' = srvInvoices
    [] req.kind = "apply" ->
         /\ srvDeposits' = DepositsAfter(req.deposit_id, req.amount, "APPLIED")
         /\ srvInvoices' = InvoicesAfterApply(req.invoice_id, req.amount)
    [] req.kind = "refund" ->
         /\ srvDeposits' = DepositsAfter(req.deposit_id, req.amount, "REFUNDED")
         /\ srvInvoices' = srvInvoices

\* The oldest request is accepted and answered 2xx: the handler goes on to
\* loadData (the spinner replaces the page until it returns) and closes its
\* dialog.
Deposits_requestSucceeds ==
  /\ depReq # <<>>
  /\ Accepted(Head(depReq))
  /\ ServerHandles(Head(depReq))
  /\ \/ deposits' = srvDeposits' /\ dError' = dError
     \/ deposits' = deposits /\ dError' = "Error al cargar depósitos"
  /\ dLoading' = FALSE
  /\ IF Head(depReq).kind = "create"
     THEN /\ dDialogOpen' = FALSE
          /\ UNCHANGED <<actionDialogOpen, selectedDeposit>>
     ELSE /\ actionDialogOpen' = FALSE
          /\ selectedDeposit' = NoDeposit
          /\ UNCHANGED dDialogOpen
  /\ depReq' = Tail(depReq)
  /\ UNCHANGED <<canManageDeposits, dFormData, actionType, actionData>>

ErrorOf(kind) ==
  CASE kind = "create" -> "Error al crear depósito"
    [] kind = "apply" -> "Error al aplicar depósito"
    [] kind = "refund" -> "Error al reembolsar depósito"

\* The oldest request is rejected or lost: the catch block of its handler.
Deposits_requestFails ==
  /\ depReq # <<>>
  /\ dError' = ErrorOf(Head(depReq).kind)
  /\ depReq' = Tail(depReq)
  /\ UNCHANGED <<srvDeposits, srvInvoices, canManageDeposits, deposits, dLoading,
                 dDialogOpen, dFormData, actionDialogOpen, selectedDeposit,
                 actionType, actionData>>

\* Another session, of a user who may manage deposits, works on the same
\* backend.
Other_createDeposit(amount) ==
  /\ CreateAccepted(amount)
  /\ srvDeposits' = DepositsAfterCreate(amount)
  /\ UNCHANGED <<srvInvoices, canManageDeposits, deposits, dLoading, dError,
                 dDialogOpen, dFormData, actionDialogOpen, selectedDeposit, actionType,
                 actionData, depReq>>

Other_applyDepositToInvoice(id, invoice_id, amount) ==
  /\ ApplyAccepted(id, invoice_id, amount)
  /\ srvDeposits' = DepositsAfter(id, amount, "APPLIED")
  /\ srvInvoices' = InvoicesAfterApply(invoice_id, amount)
  /\ UNCHANGED <<canManageDeposits, deposits, dLoading, dError, dDialogOpen, dFormData,
                 actionDialogOpen, selectedDeposit, actionType, actionData, depReq>>

Other_refundDeposit(id, amount) ==
  /\ RefundAccepted(id, amount, "otra sesión")
  /\ srvDeposits' = DepositsAfter(id, amount, "REFUNDED")
  /\ UNCHANGED <<srvInvoices, canManageDeposits, deposits, dLoading, dError,
                 dDialogOpen, dFormData, actionDialogOpen, selectedDeposit, actionType,
                 actionData, depReq>>

\* ----------------------------------------------------------------------
\*  Claims about the deposit ledger
\* ----------------------------------------------------------------------

\* C1: for every deposit, stored or shown, 0 <= available_amount <= amount
\* after any sequence of create, apply-to-invoice and refund.
C1_WithinAmount(list) ==
  \A id \in 1..Len(list) :
    0 <= list[id].available_amount /\ list[id].available_amount <= list[id].amount

C5_AmountWithinAvailable ==
  [][(Deposits_handleApplyDeposit \/ Deposits_handleRefundDeposit)
       => actionData.amount <= selectedDeposit.available_amount]_vars

\* C6: every refund request in flight carries a non-empty reason.
C6_RefundHasReason ==
  \A k \in 1..Len(depReq) : depReq[k].kind = "refund" => depReq[k].reason # ""

\* C6 witness: a refund request is in flight.
C6_Witness ==
  /\ depReq # <<>>
  /\ depReq[1].kind = "refund"
  /\ depReq[1].amount = 300000

\* C8: an accepted apply of amount a on deposit d and invoice i adds a to
\* i.paid_amount, takes a from d.available_amount, keeps
\* i.balance_due = i.total_amount - i.paid_amount and changes neither d.amount
\* nor any other deposit or invoice.
C8_ApplyEffect(d, i, a) ==
  /\ Len(srvDeposits') = Len(srvDeposits)
  /\ Len(srvInvoices') = Len(srvInvoices)
  /\ srvInvoices'[i].paid_amount = srvInvoices[i].paid_amount + a
  /\ srvInvoices'[i].total_amount = srvInvoices[i].total_amount
  /\ srvInvoices'[i].balance_due = srvInvoices'[i].total_amount - srvInvoices'[i].paid_amount
  /\ srvDeposits'[d].available_amount = srvDeposits[d].available_amount - a
  /\ srvDeposits'[d].amount = srvDeposits[d].amount
  /\ \A e \in 1..Len(srvDeposits) : e # d => srvDeposits'[e] = srvDeposits[e]
  /\ \A j \in 1..Len(srvInvoices) : j # i => srvInvoices'[j] = srvInvoices[j]

C9_Created ==
  Len(srvDeposits') = Len(srvDeposits) + 1
    => LET new == srvDeposits'[Len(srvDeposits')]
       IN new.status = "ACTIVE" /\ new.available_amount = new.amount

C9_Exhausted ==
  \A id \in 1..Len(srvDeposits) :
    (Len(srvDeposits') = Len(srvDeposits)
       /\ srvDeposits[id].available_amount > 0
       /\ srvDeposits'[id].available_amount = 0)
      => srvDeposits'[id].status =
           IF srvInvoices' # srvInvoices THEN "APPLIED" ELSE "REFUNDED"

C9_ActiveWhileAvailable ==
  \A id \in 1..Len(srvDeposits) :
    (srvDeposits[id].available_amount > 0) <=> (srvDeposits[id].status = "ACTIVE")

C9_OfferedOnlyWhenActive ==
  actionDialogOpen =>
    selectedDeposit.status = "ACTIVE" /\ selectedDeposit.available_amount > 0

Tokens == {"tokA", "tokB"}
Statuses == {200, 401, 500}
Routes == {"/login", "/facturas"}

Request(op, via, auth) == [op |-> op, via |-> via, auth |-> auth, mounted |-> TRUE]

\* Requests whose component has been unmounted: their continuation sets
\* state of a component that no longer exists.
Unmounted(reqs) ==
  {IF r.op \in {"loadData", "print", "pdf"} THEN [r EXCEPT !.mounted = FALSE] ELSE r
     : r \in reqs}

\* AuthProvider after mounting: its effect reads the stored token, and with
\* one present hands it to the client and asks for the profile.  Layout's
\* effect sends a visitor without user to /login.
AuthProvider_mount(stored) ==
  /\ token' = stored
  /\ user' = ""
  /\ isLoading' = (stored # "")
  /\ authReqs' = IF stored # "" THEN {Request("fetchUserProfile", "axios", stored)}
                 ELSE {}
  /\ location' = "/login"
  /\ invError' = ""
  /\ processingAction' = ""

AuthInit ==
  /\ localStorage_token \in {""} \cup Tokens
  /\ token = localStorage_token
  /\ user = ""
  /\ isLoading = (localStorage_token # "")
  /\ authReqs = IF localStorage_token # ""
                THEN {Request("fetchUserProfile", "axios", localStorage_token)}
                ELSE {}
  /\ location = "/login"
  /\ invError = ""
  /\ processingAction = ""
  /\ localStorage_authToken \in {""} \cup Tokens
  /\ authToken = localStorage_authToken
  /\ currentUser = ""
  /\ sScreen \in (IF authToken = "" THEN {"login"} ELSE {"login", "app"})
  /\ sReqs = IF authToken # "" THEN {[op |-> "checkAuth", auth |-> authToken]} ELSE {}

\* A signed-in session in which nothing of the session layer moves.
AuthAtRest ==
  /\ localStorage_token = "tokA" /\ token = "tokA" /\ user = "u1"
  /\ isLoading = FALSE /\ authReqs = {} /\ location = "/facturas"
  /\ invError = "" /\ processingAction = ""
  /\ localStorage_authToken = "" /\ authToken = "" /\ currentUser = ""
  /\ sScreen = "login" /\ sReqs = {}

\* The browser loads the application again (address bar, F5).
Browser_reload ==
  /\ AuthProvider_mount(localStorage_token)
  /\ UNCHANGED localStorage_token

\* Client-side route change; Layout guards every route but /login.
Router_navigate(path) ==
  /\ path # location
  /\ location' = IF path # "/login" /\ user = "" THEN "/login" ELSE path
  /\ IF location' = "/facturas"
     THEN /\ Cardinality(authReqs) < MaxAuthPending
          /\ authReqs' = authReqs \cup {Request("loadData", "axios", token)}
     ELSE authReqs' = Unmounted(authReqs)
  /\ invError' = ""
  /\ processingAction' = ""
  /\ UNCHANGED <<localStorage_token, token, user, isLoading>>

\* AuthProvider.login up to the sending of POST /auth/login.
AuthProvider_login ==
  /\ location = "/login"
  /\ \A r \in authReqs : r.op \notin {"login", "getCurrentUser"}
  /\ Cardinality(authReqs) < MaxAuthPending
  /\ isLoading' = TRUE
  /\ authReqs' = authReqs \cup {Request("login", "axios", token)}
  /\ UNCHANGED <<localStorage_token, token, user, location, invError, processingAction>>

\* AuthProvider.logout as called by Layout.handleLogout, which then
\* navigates to /login.
Layout_handleLogout ==
  /\ user # ""
  /\ location # "/login"
  /\ localStorage_token' = ""
  /\ token' = ""
  /\ user' = ""
  /\ location' = "/login"
  /\ authReqs' = Unmounted(authReqs)
  /\ invError' = ""
  /\ processingAction' = ""
  /\ UNCHANGED isLoading

InvoicesShown == location = "/facturas" /\ user # ""

\* Invoices.handlePrint up to the sending of the direct fetch.
Invoices_handlePrint ==
  /\ InvoicesShown
  /\ processingAction # "print"
  /\ Cardinality(authReqs) < MaxAuthPending
  /\ processingAction' = "print"
  /\ authReqs' = authReqs \cup {Request("print", "fetch", localStorage_token)}
  /\ UNCHANGED <<localStorage_token, token, user, isLoading, location, invError>>

\* Invoices.handleGeneratePdf up to the sending of the direct fetch.
Invoices_handleGeneratePdf ==
  /\ InvoicesShown
  /\ processingAction # "pdf"
  /\ Cardinality(authReqs) < MaxAuthPending
  /\ processingAction' = "pdf"
  /\ authReqs' = authReqs \cup {Request("pdf", "fetch", localStorage_token)}
  /\ UNCHANGED <<localStorage_token, token, user, isLoading, location, invError>>

\* api.ts response interceptor on a 401: the client's token and the stored
\* token are dropped and window.location.href = '/login' loads the
\* application again, which ends every pending continuation.
ApiService_on401 ==
  /\ localStorage_token' = ""
  /\ AuthProvider_mount("")

\* fetchUserProfile whose catch leaves the client's token in place
AuthProvider_fetchUserProfile_done_keepsClientToken(r, status) ==
  /\ authReqs' = authReqs \ {r}
  /\ isLoading' = FALSE
  /\ IF status = 200
     THEN user' = "u1" /\ UNCHANGED <<localStorage_token, token>>
     ELSE localStorage_token' = "" /\ UNCHANGED <<token, user>>
  /\ UNCHANGED <<location, invError, processingAction>>

\* AuthProvider.fetchUserProfile after the answer of GET /auth/me.
AuthProvider_fetchUserProfile_done(r, status) ==
  /\ authReqs' = authReqs \ {r}
  /\ isLoading' = FALSE
  /\ IF status = 200
     THEN user' = "u1" /\ UNCHANGED <<localStorage_token, token>>
     ELSE localStorage_token' = "" /\ token' = "" /\ UNCHANGED user
  /\ UNCHANGED <<location, invError, processingAction>>

\* AuthProvider.login after the answer of POST /auth/login; access_token
\* is the token of the answer, empty when it carries none.
AuthProvider_login_answered(r, status, access_token) ==
  /\ IF status = 200 /\ access_token # ""
     THEN /\ localStorage_token' = access_token
          /\ token' = access_token
          /\ authReqs' = (authReqs \ {r})
                           \cup {Request("getCurrentUser", "axios", access_token)}
          /\ UNCHANGED isLoading
     ELSE /\ isLoading' = FALSE
          /\ authReqs' = authReqs \ {r}
          /\ UNCHANGED <<localStorage_token, token>>
  /\ UNCHANGED <<user, location, invError, processingAction>>

\* AuthProvider.login after the answer of its GET /auth/me.
AuthProvider_login_done(r, status) ==
  /\ authReqs' = authReqs \ {r}
  /\ isLoading' = FALSE
  /\ user' = IF status = 200 THEN "u1" ELSE user
  /\ UNCHANGED <<localStorage_token, token, location, invError, processingAction>>

\* Invoices.loadData after the answers of its requests.
Invoices_loadData_done(r, status) ==
  /\ authReqs' = authReqs \ {r}
  /\ invError' = IF r.mounted /\ status # 200 THEN "Error al cargar facturas"
                 ELSE invError
  /\ UNCHANGED <<localStorage_token, token, user, isLoading, location, processingAction>>

\* Invoices.handlePrint / handleGeneratePdf after the answer of the fetch:
\* every answer that is not ok, a 401 included, ends in catch and finally.
Invoices_fetch_done(r, status) ==
  /\ authReqs' = authReqs \ {r}
  /\ IF r.mounted
     THEN /\ processingAction' = ""
          /\ invError' = IF status = 200 THEN invError
                         ELSE IF r.op = "print" THEN "Error al imprimir factura"
                         ELSE "Error al generar PDF"
     ELSE UNCHANGED <<invError, processingAction>>
  /\ UNCHANGED <<localStorage_token, token, user, isLoading, location>>

\* An answer reaches the browser and the code waiting for it runs.
Answer(r, status, access_token) ==
  /\ r \in authReqs
  /\ IF r.via = "axios" /\ status = 401
     THEN ApiService_on401
     ELSE CASE r.op = "fetchUserProfile" -> AuthProvider_fetchUserProfile_done(r, status)
            [] r.op = "login" -> AuthProvider_login_answered(r, status, access_token)
            [] r.op = "getCurrentUser" -> AuthProvider_login_done(r, status)
            [] r.op = "loadData" -> Invoices_loadData_done(r, status)
            [] OTHER -> Invoices_fetch_done(r, status)

ReactFrame ==
  UNCHANGED <<quoteVars, depositVars, staticVars, settingsVars, customerVars, expiryVars,
             calcVars, formVars, dashVars>>

ReactNext ==
  \/ ReactFrame /\ Browser_reload
  \/ ReactFrame /\ \E path \in Routes : Router_navigate(path)
  \/ ReactFrame /\ AuthProvider_login
  \/ ReactFrame /\ Layout_handleLogout
  \/ ReactFrame /\ Invoices_handlePrint
  \/ ReactFrame /\ Invoices_handleGeneratePdf
  \/ ReactFrame /\ \E r \in authReqs, status \in Statuses, access_token \in {""} \cup Tokens :
       Answer(r, status, access_token)

\* ======================================================================
\*  Static application (dashboard.js, second script: initializeApp,
\*  handleLogin, checkAuth, logout, apiCall)
\* ======================================================================
StaticRequest(op, auth) == [op |-> op, auth |-> auth]

\* logout(): the stored token and the session are dropped, the login
\* section is shown.
logout ==
  /\ localStorage_authToken' = ""
  /\ authToken' = ""
  /\ currentUser' = ""
  /\ sScreen' = "login"

\* showApp() followed by loadInitialData(), whose loaders go through apiCall.
showApp_loadInitialData(reqs, auth) ==
  /\ sScreen' = "app"
  /\ sReqs' = reqs \cup {StaticRequest("load", auth)}

\* handleLogin up to the sending of POST /api/auth/login.
Static_handleLogin ==
  /\ sScreen = "login"
  /\ Cardinality(sReqs) < MaxAuthPending
  /\ sReqs' = sReqs \cup {StaticRequest("login", "")}
  /\ UNCHANGED <<localStorage_authToken, authToken, currentUser, sScreen>>

\* handleLogin after the answer.
Static_handleLogin_answered(r, status, access_token) ==
  IF status = 200
  THEN /\ authToken' = access_token
       /\ currentUser' = "u1"
       /\ localStorage_authToken' = access_token
       /\ showApp_loadInitialData(sReqs \ {r}, access_token)
  ELSE /\ sReqs' = sReqs \ {r}
       /\ UNCHANGED <<localStorage_authToken, authToken, currentUser, sScreen>>

\* A loader started from the application section (showSection,
\* refresh): one apiCall with the current token.
Static_loadSectionData ==
  /\ sScreen = "app"
  /\ Cardinality(sReqs) < MaxAuthPending
  /\ sReqs' = sReqs \cup {StaticRequest("load", authToken)}
  /\ UNCHANGED <<localStorage_authToken, authToken, currentUser, sScreen>>

\* apiCall after the answer, with what its caller does with the outcome:
\* a 401 calls logout() and returns null, any other failure throws.
Static_apiCall_answered(r, status) ==
  IF status = 401
  THEN logout /\ sReqs' = sReqs \ {r}
  ELSE IF r.op = "checkAuth"
  THEN IF status = 200
       THEN /\ showApp_loadInitialData(sReqs \ {r}, authToken)
            /\ UNCHANGED <<localStorage_authToken, authToken, currentUser>>
       ELSE logout /\ sReqs' = sReqs \ {r}
  ELSE /\ sReqs' = sReqs \ {r}
       /\ UNCHANGED <<localStorage_authToken, authToken, currentUser, sScreen>>

\* The log-out control of the application section.
Static_logout ==
  /\ sScreen = "app"
  /\ logout
  /\ UNCHANGED sReqs

Static_answer(r, status, access_token) ==
  /\ r \in sReqs
  /\ IF r.op = "login"
     THEN Static_handleLogin_answered(r, status, access_token)
     ELSE Static_apiCall_answered(r, status)

StaticFrame ==
  UNCHANGED <<quoteVars, depositVars, reactVars, settingsVars, customerVars, expiryVars,
             calcVars, formVars, dashVars>>

StaticNext ==
  \/ StaticFrame /\ Static_handleLogin
  \/ StaticFrame /\ Static_loadSectionData
  \/ StaticFrame /\ Static_logout
  \/ StaticFrame /\ \E r \in sReqs, status \in Statuses, access_token \in Tokens :
       Static_answer(r, status, access_token)

AuthNext == ReactNext \/ StaticNext

\* ----------------------------------------------------------------------
\*  C10: every request of the frontend that is answered with 401, through
\*  the API client, through the direct fetch of an invoice PDF, or through
\*  the static application's apiCall, leaves the stored token cleared and
\*  the login view shown.
\* ----------------------------------------------------------------------
C10_React401 ==
  \A r \in authReqs, t \in {""} \cup Tokens :
    Answer(r, 401, t) =>
      localStorage_token' = "" /\ token' = "" /\ location' = "/login"

C10_Static401 ==
  \A r \in sReqs, t \in Tokens :
    (r.op # "login" /\ Static_answer(r, 401, t)) =>
      localStorage_authToken' = "" /\ authToken' = "" /\ sScreen' = "login"

C10_Any401ForcesLogout == [][C10_React401 /\ C10_Static401]_vars

\* ======================================================================
\*  Company settings page (CompanySettings: loadCompanySettings,
\*  handleSave, handleInputChange)
\* ======================================================================
Roles == {"admin", "manager", "user"}

\* The fields of the form the save button looks at, and the one flag the
\* backend computes.
defaultSettings ==
  [razon_social |-> "", ruc |-> "", timbrado |-> "", direccion |-> "",
   configuracion_completa |-> FALSE]

TypedSettings ==
  [razon_social |-> {"", "ACME", "Beta"}, ruc |-> {"", "80012345"},
   timbrado |-> {"12345678"}, direccion |-> {"Asuncion"}]

\* Answers of a failed request: no response at all (network), a response
\* without detail, a response whose body carries a detail, a 404.
Failures ==
  {[status |-> 0, detail |-> ""], [status |-> 500, detail |-> ""],
   [status |-> 422, detail |-> "RUC invalido"], [status |-> 404, detail |-> ""]}

canEdit == role = "admin" \/ role = "manager"

SettingsInit ==
  /\ role \in Roles
  /\ srvHasSettings \in BOOLEAN
  /\ srvSettings = IF srvHasSettings
                   THEN [razon_social |-> "ACME", ruc |-> "80012345",
                         timbrado |-> "12345678", direccion |-> "Asuncion",
                         configuracion_completa |-> TRUE]
                   ELSE defaultSettings
  /\ settings = defaultSettings
  /\ csLoading = TRUE
  /\ saving = FALSE
  /\ csError = ""
  /\ success = ""
  /\ isNewConfiguration = FALSE
  /\ csReq = <<[kind |-> "get", body |-> defaultSettings]>>

SettingsAtRest ==
  /\ role = "admin" /\ srvHasSettings = FALSE /\ srvSettings = defaultSettings
  /\ settings = defaultSettings /\ csLoading = FALSE /\ saving = FALSE
  /\ csError = "" /\ success = "" /\ isNewConfiguration = TRUE /\ csReq = <<>>

\* loadCompanySettings up to its await: the mount effect has issued the
\* first one; 'Cancelar' issues the later ones.
CompanySettings_loadCompanySettings ==
  /\ canEdit /\ ~csLoading /\ ~saving
  /\ csLoading' = TRUE
  /\ csError' = ""
  /\ csReq' = Append(csReq, [kind |-> "get", body |-> defaultSettings])
  /\ UNCHANGED <<role, srvHasSettings, srvSettings, settings, saving, success,
                 isNewConfiguration>>

\* loadCompanySettings after the answer of GET /company/settings.
CompanySettings_loadCompanySettings_loaded ==
  /\ csReq # <<>> /\ Head(csReq).kind = "get"
  /\ srvHasSettings
  /\ settings' = srvSettings
  /\ isNewConfiguration' = FALSE
  /\ csLoading' = FALSE
  /\ csReq' = Tail(csReq)
  /\ UNCHANGED <<role, srvHasSettings, srvSettings, saving, csError, success>>

\* loadCompanySettings, catch: a 404 means no configuration yet, any other
\* failure sets the error.
CompanySettings_loadCompanySettings_failed(failure) ==
  /\ csReq # <<>> /\ Head(csReq).kind = "get"
  /\ failure.status = 404 <=> ~srvHasSettings
  /\ IF failure.status = 404
     THEN /\ settings' = defaultSettings
          /\ isNewConfiguration' = TRUE
          /\ UNCHANGED csError
     ELSE /\ csError' = "Error al cargar configuración de empresa"
          /\ UNCHANGED <<settings, isNewConfiguration>>
  /\ csLoading' = FALSE
  /\ csReq' = Tail(csReq)
  /\ UNCHANGED <<role, srvHasSettings, srvSettings, saving, success>>

\* handleInputChange: the fields are disabled only by !canEdit.
CompanySettings_handleInputChange(field, value) ==
  /\ canEdit /\ ~csLoading
  /\ settings[field] # value
  /\ settings' = [settings EXCEPT ![field] = value]
  /\ UNCHANGED <<role, srvHasSettings, srvSettings, csLoading, saving, csError,
                 success, isNewConfiguration, csReq>>

\* handleSave up to its await.  The button is rendered for canEdit and
\* disabled by saving and by an empty required field.
CompanySettings_handleSave ==
  /\ canEdit /\ ~csLoading /\ ~saving
  /\ settings.razon_social # "" /\ settings.ruc # ""
  /\ settings.timbrado # "" /\ settings.direccion # ""
  /\ saving' = TRUE
  /\ csError' = ""
  /\ success' = ""
  /\ csReq' = Append(csReq, [kind |-> IF isNewConfiguration THEN "create" ELSE "update",
                             body |-> settings])
  /\ UNCHANGED <<role, srvHasSettings, srvSettings, settings, csLoading,
                 isNewConfiguration>>

\* The backend stores the settings of an accepted save; whether it marks the
\* configuration complete is its own decision.
SaveAccepted(req) ==
  IF req.kind = "create" THEN ~srvHasSettings ELSE srvHasSettings

SavedSettings(req) ==
  {[req.body EXCEPT !.configuracion_completa = c] : c \in BOOLEAN}

\* handleSave after a 2xx answer: the answer replaces the form's settings.
CompanySettings_handleSave_saved ==
  /\ csReq # <<>> /\ Head(csReq).kind # "get"
  /\ SaveAccepted(Head(csReq))
  /\ srvSettings' \in SavedSettings(Head(csReq))
  /\ srvHasSettings' = TRUE
  /\ isNewConfiguration' = IF Head(csReq).kind = "create" THEN FALSE
                           ELSE isNewConfiguration
  /\ settings' = srvSettings'
  /\ success' = "Configuración guardada exitosamente"
  /\ saving' = FALSE
  /\ csReq' = Tail(csReq)
  /\ UNCHANGED <<role, csLoading, csError>>

\* handleSave, catch: err.response?.data?.detail || 'Error al guardar
\* configuración'.
CompanySettings_handleSave_failed(failure) ==
  /\ csReq # <<>> /\ Head(csReq).kind # "get"
  /\ csError' = IF failure.detail # "" THEN failure.detail
                ELSE "Error al guardar configuración"
  /\ saving' = FALSE
  /\ csReq' = Tail(csReq)
  /\ UNCHANGED <<role, srvHasSettings, srvSettings, settings, csLoading, success,
                 isNewConfiguration>>

\* The timer handleSave starts after a save: setSuccess('').
CompanySettings_clearSuccess ==
  /\ success # ""
  /\ success' = ""
  /\ UNCHANGED <<role, srvHasSettings, srvSettings, settings, csLoading, saving,
                 csError, isNewConfiguration, csReq>>

\* ======================================================================
\*  Claims about the round trip of a mutation
\* ======================================================================

\* C11: while a mutation request of a page (quote save, deposit create,
\* apply or refund) is pending, no second mutation request is issued from
\* that page: at most one is in flight per page.
C11_OneMutationInFlight == Len(quoteReq) <= 1 /\ Len(depReq) <= 1

\* C12: the server data a page displays changes only through a re-fetch
\* (or, for the settings form, through the user's typing), never through a
\* mutation's own answer; a failed mutation leaves the displayed data and
\* the dialogs as they were.
C12_Displayed == <<quotes, products, deposits, settings>>

C12_Refetch ==
  \/ Quotes_loadData
  \/ Quotes_handleSubmit_saved
  \/ Deposits_loadData
  \/ Deposits_requestSucceeds
  \/ CompanySettings_loadCompanySettings_loaded
  \/ \E failure \in Failures : CompanySettings_loadCompanySettings_failed(failure)

C12_UserInput ==
  \E field \in DOMAIN TypedSettings :
    \E value \in TypedSettings[field] : CompanySettings_handleInputChange(field, value)

C12_FailedMutation ==
  \/ Quotes_handleSubmit_failed
  \/ Deposits_requestFails
  \/ \E failure \in Failures : CompanySettings_handleSave_failed(failure)

C12_RefetchOnMutation ==
  [][/\ C12_Displayed' # C12_Displayed => C12_Refetch \/ C12_UserInput
     /\ C12_FailedMutation =>
          /\ C12_Displayed' = C12_Displayed
          /\ UNCHANGED <<qDialogOpen, dDialogOpen, actionDialogOpen>>]_vars

\* C13: a failed API call of a page handler ends with the page's error set
\* to the handler's one message, whatever the failure was (no answer, an
\* answer with or without detail, any status), and the call is not issued
\* again by the page itself.
C13_QuoteFailure ==
  Quotes_handleSubmit_failed =>
    qError' = "Error al guardar cotización" /\ Len(quoteReq') < Len(quoteReq)

C13_DepositFailure ==
  Deposits_requestFails =>
    /\ dError' \in {"Error al crear depósito", "Error al aplicar depósito",
                    "Error al reembolsar depósito"}
    /\ Len(depReq') < Len(depReq)

C13_SettingsFailure ==
  \A failure \in Failures :
    /\ CompanySettings_handleSave_failed(failure) =>
         csError' = "Error al guardar configuración" /\ csReq' = Tail(csReq)
    /\ CompanySettings_loadCompanySettings_failed(failure) =>
         csError' = "Error al cargar configuración de empresa" /\ csReq' = Tail(csReq)

C13_SingleErrorMessage ==
  [][C13_QuoteFailure /\ C13_DepositFailure /\ C13_SettingsFailure]_vars

\* ----------------------------------------------------------------------
\*  C18: every line of the quote builder, and every line of every quote
\*  sent to the backend, has a quantity >= 1, a unit_price >= 0 and a
\*  discount between 0 and 100, whatever sequence of add-product and
\*  line-edit operations was made.
\* ----------------------------------------------------------------------
C18_LineInRange(line) ==
  /\ line.quantity \in Nat /\ line.quantity >= 1
  /\ line.unit_price >= 0
  /\ line.discount >= 0 /\ line.discount <= 100

C18_LinesInRange ==
  /\ \A i \in DOMAIN quoteLines : C18_LineInRange(quoteLines[i])
  /\ \A r \in DOMAIN quoteReq :
       \A i \in DOMAIN quoteReq[r].lines : C18_LineInRange(quoteReq[r].lines[i])

\* ======================================================================
\*  Dates (JavaScript Date).  An instant is a number of hours since the
\*  start of day 0 in UTC; a date string names a day.
\* ======================================================================
HoursPerDay == 24

\* 'YYYY-MM-DD', 'YYYY-MM-DDTHH:mm:ss' at 00:00:00, '' and an unparsable string
DateString(day) == [kind |-> "date", day |-> day]
DateTimeString(day) == [kind |-> "datetime", day |-> day]
NoDateString == [kind |-> "missing", day |-> 0]
BadDateString == [kind |-> "invalid", day |-> 0]

\* !expiryDate
IsEmpty(dateString) == dateString.kind = "missing"

\* isNaN(new Date(dateString).getTime())
IsNaN(dateString) == dateString.kind = "invalid"

\* new Date(dateString): a date-only string is midnight UTC, a date-time
\* string without a zone is local time.
new_Date(dateString) ==
  IF dateString.kind = "date" THEN dateString.day * HoursPerDay
  ELSE dateString.day * HoursPerDay - tz

\* date.setHours(0, 0, 0, 0): midnight of the local day the instant is in
setHours0(instant) == ((instant + tz) \div HoursPerDay) * HoursPerDay - tz

\* Math.ceil(x / y) for y > 0
Math_ceil(x, y) == -((-x) \div y)

\* Customers: isRegimeExpiringSoon
isRegimeExpiringSoon(dateString) ==
  IF IsEmpty(dateString) \/ IsNaN(dateString) THEN FALSE
  ELSE LET expiry == setHours0(new_Date(dateString))
           today == setHours0(now)
           daysUntilExpiry == Math_ceil(expiry - today, HoursPerDay)
       IN  daysUntilExpiry <= 5 /\ daysUntilExpiry >= 0

\* Customers: isRegimeExpired
isRegimeExpired(dateString) ==
  IF IsEmpty(dateString) \/ IsNaN(dateString) THEN FALSE
  ELSE LET expiry == setHours0(new_Date(dateString))
           today == setHours0(now)
       IN  expiry < today

\* isExpiringSoon with the operands of the difference exchanged
isExpiringSoon_daysSinceExpiry(dateString) ==
  IF IsEmpty(dateString) \/ IsNaN(dateString) THEN FALSE
  ELSE LET expiry == new_Date(dateString)
           today == now
           daysUntilExpiry == Math_ceil(today - expiry, HoursPerDay)
       IN  daysUntilExpiry <= 30 /\ daysUntilExpiry >= 0

\* Products: isExpiringSoon (Math.ceil(NaN) compares false)
isExpiringSoon(dateString) ==
  IF IsEmpty(dateString) \/ IsNaN(dateString) THEN FALSE
  ELSE LET expiry == new_Date(dateString)
           today == now
           daysUntilExpiry == Math_ceil(expiry - today, HoursPerDay)
       IN  daysUntilExpiry <= 30 /\ daysUntilExpiry >= 0

\* Products: isExpired
isExpired(dateString) ==
  IF IsEmpty(dateString) \/ IsNaN(dateString) THEN FALSE
  ELSE LET expiry == new_Date(dateString)
           today == now
       IN  expiry < today

\* The clock of the browser: three instants of day 10 (UTC) and three zones.
ClockInstants == {10 * HoursPerDay + hour : hour \in {2, 12, 22}}
TimeZones == {-3, 0, 2}

\* The local calendar day of the clock.
LocalDay == (now + tz) \div HoursPerDay

\* ======================================================================
\*  The customers page (Customers)
\* ======================================================================
NoFile == [type |-> "", size |-> 0]
MaxFileSize == 10 * 1024 * 1024

\* Files the user can pick in the file chooser.
Files == [type : {"application/pdf", "image/png"},
          size : {1024, MaxFileSize, MaxFileSize + 1}]

NoCustomer ==
  [id |-> 0, company_name |-> "", tourism_regime |-> FALSE,
   tourism_regime_expiry |-> NoDateString]

\* Lists GET /customers answers with.
CustomerLists ==
  LET regime == [id |-> 1, company_name |-> "ACME", tourism_regime |-> TRUE,
                 tourism_regime_expiry |-> DateString(13)]
      plain  == [id |-> 2, company_name |-> "Beta", tourism_regime |-> FALSE,
                 tourism_regime_expiry |-> NoDateString]
  IN  {<<>>, <<regime>>, <<regime, plain>>}

\* Values typed into the company name and expiry date fields.
TypedCompanyNames == {"", "ACME"}
TypedExpiryDates == {NoDateString, DateString(10), DateString(13)}

EmptyCustomerForm ==
  [company_name |-> "", tourism_regime |-> FALSE, tourism_regime_expiry |-> NoDateString]

CustomerRequest(op, customerId, data, file) ==
  [op |-> op, customerId |-> customerId, formData |-> data, selectedFile |-> file]

\* The clock while no page reads it.
ClockAtRest == now = 10 * HoursPerDay + 12 /\ tz = 0

\* Neither the page nor a request of it is active.
CustomersAtRest ==
  /\ customers = <<>>
  /\ cuLoading = FALSE
  /\ cuError = ""
  /\ cuDialogOpen = FALSE
  /\ editingCustomer = NoCustomer
  /\ selectedFile = NoFile
  /\ fileError = ""
  /\ submitting = FALSE
  /\ cuFormData = EmptyCustomerForm
  /\ custReq = <<>>
  /\ can_create_customers = FALSE

\* The page is mounted: the effect has called loadCustomers.
CustomersInit ==
  /\ now \in ClockInstants
  /\ tz \in TimeZones
  /\ customers = <<>>
  /\ cuLoading = TRUE
  /\ cuError = ""
  /\ cuDialogOpen = FALSE
  /\ editingCustomer = NoCustomer
  /\ selectedFile = NoFile
  /\ fileError = ""
  /\ submitting = FALSE
  /\ cuFormData = EmptyCustomerForm
  /\ custReq = <<CustomerRequest("load", 0, EmptyCustomerForm, NoFile)>>
  /\ can_create_customers \in BOOLEAN

Without(reqs, i) == SubSeq(reqs, 1, i - 1) \o SubSeq(reqs, i + 1, Len(reqs))

\* The list and the dialog are rendered only while loading is false.
CustomersShown == ~cuLoading
CustomerDialogShown == CustomersShown /\ cuDialogOpen

\* handleCloseDialog
CloseCustomerDialog ==
  /\ cuDialogOpen' = FALSE
  /\ editingCustomer' = NoCustomer
  /\ selectedFile' = NoFile
  /\ fileError' = ""
  /\ submitting' = FALSE

\* loadCustomers, from its answer on; called by the mount effect ("load")
\* and as the last step of handleSubmit ("reload"), which then closes the
\* dialog.
Customers_loadCustomers_done(i, ok, data) ==
  /\ i \in DOMAIN custReq
  /\ custReq[i].op \in {"load", "reload"}
  /\ IF ok
       THEN customers' = data /\ UNCHANGED cuError
       ELSE cuError' = "Error al cargar clientes" /\ UNCHANGED customers
  /\ cuLoading' = FALSE
  /\ IF custReq[i].op = "reload"
       THEN CloseCustomerDialog
       ELSE UNCHANGED <<cuDialogOpen, editingCustomer, selectedFile, fileError, submitting>>
  /\ custReq' = Without(custReq, i)
  /\ UNCHANGED <<clockVars, cuFormData, can_create_customers>>

\* handleOpenDialog(customer); row 0 is the "Nuevo Cliente" button.
Customers_handleOpenDialog(row) ==
  /\ CustomersShown
  /\ ~cuDialogOpen
  /\ IF row = 0
       THEN /\ can_create_customers
            /\ editingCustomer' = NoCustomer
            /\ cuFormData' = EmptyCustomerForm
            /\ selectedFile' = NoFile
            /\ fileError' = ""
       ELSE /\ row \in DOMAIN customers
            /\ editingCustomer' = customers[row]
            /\ cuFormData' = [company_name |-> customers[row].company_name,
                              tourism_regime |-> customers[row].tourism_regime,
                              tourism_regime_expiry |-> customers[row].tourism_regime_expiry]
            /\ UNCHANGED <<selectedFile, fileError>>
  /\ cuDialogOpen' = TRUE
  /\ UNCHANGED <<clockVars, customers, cuLoading, cuError, submitting, custReq,
                 can_create_customers>>

\* handleCloseDialog: the Cancelar button is disabled while submitting, the
\* dialog's onClose (backdrop, Escape) is not.
Customers_handleCloseDialog ==
  /\ CustomerDialogShown
  /\ CloseCustomerDialog
  /\ UNCHANGED <<clockVars, customers, cuLoading, cuError, cuFormData, custReq,
                 can_create_customers>>

\* onChange of the company name and of the expiry date fields
Customers_setFormData(field, value) ==
  /\ CustomerDialogShown
  /\ field = "tourism_regime_expiry" => cuFormData.tourism_regime
  /\ cuFormData' = [cuFormData EXCEPT ![field] = value]
  /\ UNCHANGED <<clockVars, customers, cuLoading, cuError, cuDialogOpen,
                 editingCustomer, selectedFile, fileError, submitting, custReq,
                 can_create_customers>>

\* onChange of the tourism regime switch
Customers_toggleRegime ==
  /\ CustomerDialogShown
  /\ LET isChecked == ~cuFormData.tourism_regime
     IN  /\ cuFormData' =
               [cuFormData EXCEPT
                  !.tourism_regime = isChecked,
                  !.tourism_regime_expiry =
                     IF isChecked THEN cuFormData.tourism_regime_expiry ELSE NoDateString]
         /\ IF ~isChecked
              THEN selectedFile' = NoFile /\ fileError' = ""
              ELSE UNCHANGED <<selectedFile, fileError>>
  /\ UNCHANGED <<clockVars, customers, cuLoading, cuError, cuDialogOpen,
                 editingCustomer, submitting, custReq, can_create_customers>>

\* handleFileSelect without the size check
Customers_handleFileSelect_noSizeCheck(file) ==
  /\ CustomerDialogShown
  /\ cuFormData.tourism_regime
  /\ IF file = NoFile THEN UNCHANGED <<selectedFile, fileError>>
     ELSE IF file.type # "application/pdf"
       THEN fileError' = "Solo se permiten archivos PDF" /\ UNCHANGED selectedFile
     ELSE selectedFile' = file /\ fileError' = ""
  /\ UNCHANGED <<clockVars, customers, cuLoading, cuError, cuDialogOpen,
                 editingCustomer, cuFormData, submitting, custReq,
                 can_create_customers>>

\* handleFileSelect; NoFile is a chooser closed without a file.
Customers_handleFileSelect(file) ==
  /\ CustomerDialogShown
  /\ cuFormData.tourism_regime
  /\ IF file = NoFile THEN UNCHANGED <<selectedFile, fileError>>
     ELSE IF file.type # "application/pdf"
       THEN fileError' = "Solo se permiten archivos PDF" /\ UNCHANGED selectedFile
     ELSE IF file.size > MaxFileSize
       THEN /\ fileError' = "El archivo es demasiado grande. Máximo permitido: 10MB"
            /\ UNCHANGED selectedFile
     ELSE selectedFile' = file /\ fileError' = ""
  /\ UNCHANGED <<clockVars, customers, cuLoading, cuError, cuDialogOpen,
                 editingCustomer, cuFormData, submitting, custReq,
                 can_create_customers>>

\* disabled of the submit button
CustomerSubmitDisabled ==
  \/ submitting
  \/ cuFormData.company_name = ""
  \/ cuFormData.tourism_regime /\ IsEmpty(cuFormData.tourism_regime_expiry)
  \/ cuFormData.tourism_regime /\ selectedFile # NoFile /\ fileError # ""

\* handleSubmit, up to the call of createCustomer or updateCustomer
Customers_handleSubmit ==
  /\ CustomerDialogShown
  /\ ~CustomerSubmitDisabled
  /\ Len(custReq) < MaxCustomerPending
  /\ IF cuFormData.tourism_regime /\ IsEmpty(cuFormData.tourism_regime_expiry)
       THEN /\ cuError' = "Debe proporcionar la fecha de vencimiento del régimen de turismo"
            /\ submitting' = FALSE
            /\ UNCHANGED custReq
     ELSE IF /\ cuFormData.tourism_regime
             /\ ~IsNaN(cuFormData.tourism_regime_expiry)
             /\ new_Date(cuFormData.tourism_regime_expiry) <= setHours0(now)
       THEN /\ cuError' = "La fecha de vencimiento del régimen de turismo debe ser futura"
            /\ submitting' = FALSE
            /\ UNCHANGED custReq
     ELSE /\ cuError' = ""
          /\ submitting' = TRUE
          /\ custReq' = Append(custReq,
               CustomerRequest("save", editingCustomer.id, cuFormData, selectedFile))
  /\ UNCHANGED <<clockVars, customers, cuLoading, cuDialogOpen, editingCustomer,
                 selectedFile, fileError, cuFormData, can_create_customers>>

\* handleSubmit, from the answer with the saved customer on: the upload of
\* the file the call holds, or else loadCustomers.
Customers_handleSubmit_saved(i, id) ==
  /\ i \in DOMAIN custReq
  /\ custReq[i].op = "save"
  /\ LET req == custReq[i]
         customerId == IF req.customerId # 0 THEN req.customerId ELSE id
     IN  IF req.selectedFile # NoFile /\ req.formData.tourism_regime
           THEN /\ custReq' = [custReq EXCEPT ![i] =
                     CustomerRequest("upload", customerId, req.formData, req.selectedFile)]
                /\ UNCHANGED cuLoading
           ELSE /\ custReq' = [custReq EXCEPT ![i] =
                     CustomerRequest("reload", customerId, req.formData, req.selectedFile)]
                /\ cuLoading' = TRUE
  /\ UNCHANGED <<clockVars, customers, cuError, cuDialogOpen, editingCustomer,
                 selectedFile, fileError, submitting, cuFormData, can_create_customers>>

\* handleSubmit, when createCustomer or updateCustomer fails
Customers_handleSubmit_failed(i) ==
  /\ i \in DOMAIN custReq
  /\ custReq[i].op = "save"
  /\ cuError' = "Error al guardar cliente"
  /\ submitting' = FALSE
  /\ custReq' = Without(custReq, i)
  /\ UNCHANGED <<clockVars, customers, cuLoading, cuDialogOpen, editingCustomer,
                 selectedFile, fileError, cuFormData, can_create_customers>>

\* handleSubmit, from the answer of uploadTourismPdf on
Customers_handleSubmit_uploaded(i, ok) ==
  /\ i \in DOMAIN custReq
  /\ custReq[i].op = "upload"
  /\ IF ok THEN UNCHANGED cuError
     ELSE cuError' = "Cliente guardado, pero error al subir archivo. Puede subirlo después editando el cliente."
  /\ cuLoading' = TRUE
  /\ custReq' = [custReq EXCEPT ![i].op = "reload"]
  /\ UNCHANGED <<clockVars, customers, cuDialogOpen, editingCustomer, selectedFile,
                 fileError, submitting, cuFormData, can_create_customers>>

\* ----------------------------------------------------------------------
\*  C14: a tourism-regime document is sent to the upload endpoint only if
\*  it is of type application/pdf and at most 10 MB: the selected file the
\*  page holds, and the file of every upload in flight, is absent or a PDF
\*  within the size limit, and a selection of any other file sets the file
\*  error and leaves the held file as it was.
\* ----------------------------------------------------------------------
C14_ValidPdf(file) == file.type = "application/pdf" /\ file.size <= 10 * 1024 * 1024

C14_HeldFileValid ==
  /\ selectedFile = NoFile \/ C14_ValidPdf(selectedFile)
  /\ \A i \in DOMAIN custReq :
       /\ custReq[i].selectedFile = NoFile \/ C14_ValidPdf(custReq[i].selectedFile)
       /\ custReq[i].op = "upload" => C14_ValidPdf(custReq[i].selectedFile)

C14_InvalidSelectionRejected ==
  \A file \in Files :
    ~C14_ValidPdf(file) /\ Customers_handleFileSelect(file) =>
      fileError' # "" /\ selectedFile' = selectedFile /\ custReq' = custReq

NoChip == [rendered |-> FALSE, expired |-> FALSE, expiringSoon |-> FALSE]

\* Expiry dates a row can carry.
ExpiryDays == 7..42
ExpiryDates ==
  {DateString(day) : day \in ExpiryDays} \cup {DateTimeString(day) : day \in ExpiryDays}
    \cup {NoDateString, BadDateString}

\* Every hour of day 10 (UTC).
ExpiryInstants == {10 * HoursPerDay + hour : hour \in 0..(HoursPerDay - 1)}

ExpiryAtRest == expiryDate = NoDateString /\ regimeChip = NoChip /\ productChip = NoChip

ExpiryInit ==
  /\ now \in ExpiryInstants
  /\ tz \in TimeZones
  /\ expiryDate \in ExpiryDates
  /\ regimeChip = NoChip
  /\ productChip = NoChip

\* The list is loaded with another expiry date for the row.
Row_setExpiryDate(dateString) ==
  /\ expiryDate # dateString
  /\ expiryDate' = dateString
  /\ regimeChip' = NoChip
  /\ productChip' = NoChip
  /\ UNCHANGED customerVars

\* Customers: the row's chips for customer.tourism_regime_expiry
Customers_renderRegimeChip ==
  /\ ~regimeChip.rendered
  /\ regimeChip' = [rendered |-> TRUE,
                    expired |-> isRegimeExpired(expiryDate),
                    expiringSoon |-> isRegimeExpiringSoon(expiryDate)]
  /\ UNCHANGED <<customerVars, expiryDate, productChip>>

\* Products: the row's chips for product.expiry_date
Products_renderExpiryChip ==
  /\ ~productChip.rendered
  /\ productChip' = [rendered |-> TRUE,
                     expired |-> isExpired(expiryDate),
                     expiringSoon |-> isExpiringSoon(expiryDate)]
  /\ UNCHANGED <<customerVars, expiryDate, regimeChip>>

\* ----------------------------------------------------------------------
\*  C15: the customer list classifies a tourism-regime expiry date by the
\*  whole days d from today to that date: the row shows expired exactly
\*  when the date is before today, expiring soon exactly when 0 <= d <= 5,
\*  and neither for a missing or an invalid date.
\* ----------------------------------------------------------------------
C15_CustomerClassification ==
  regimeChip.rendered =>
    IF expiryDate.kind \in {"missing", "invalid"}
      THEN ~regimeChip.expired /\ ~regimeChip.expiringSoon
      ELSE LET d == expiryDate.day - LocalDay
           IN  /\ regimeChip.expired <=> expiryDate.day < LocalDay
               /\ regimeChip.expiringSoon <=> (0 <= d /\ d <= 5)

\* ----------------------------------------------------------------------
\*  C16: the product list classifies a product expiry date by the days d
\*  from today to that date: the row shows expired exactly when the date
\*  is before today, and expiring soon exactly when 0 <= d <= 30.
\* ----------------------------------------------------------------------
C16_ProductClassification ==
  productChip.rendered /\ expiryDate.kind \in {"date", "datetime"} =>
    LET d == expiryDate.day - LocalDay
    IN  /\ productChip.expired <=> expiryDate.day < LocalDay
        /\ productChip.expiringSoon <=> (0 <= d /\ d <= 30)

\* ----------------------------------------------------------------------
\*  C17: for an expiry date of today + 3 days the product list's
\*  isExpiringSoon is false while the customer list's isRegimeExpiringSoon
\*  for the same date is true (C17_ProductNotExpiringSoon).  The product
\*  list's threshold of 30 days includes 3: both are true
\*  (C17_BothExpiringSoon).
\* ----------------------------------------------------------------------
C17_TodayPlus3Rendered ==
  /\ expiryDate.kind \in {"date", "datetime"}
  /\ expiryDate.day = LocalDay + 3
  /\ regimeChip.rendered
  /\ productChip.rendered

TypedHundredths == {1, 5, 125, 199900}
TypedItemQuantities == {1, 2, 3}
TypedPercents == {0, 10, 15, 50, 100}

\* dashboard.js: updateItemTotal (total)
updateItemTotal(row) ==
  LET quantity == OrElse(row.quantity, 0)
      unitPrice == OrElse(row.unit_price, 0)
      discount == OrElse(row.discount, 0)
      subtotal == quantity * unitPrice * 1000
      discountAmount == (subtotal \div 100) * discount
  IN  subtotal - discountAmount

\* dashboard.js: formatNumber, Intl.NumberFormat('es-PY') keeps at most three
\* fraction digits.
Static_formatNumber(amount) == ((amount + 50) \div 100) * 100

CalcAtRest ==
  /\ builderLine = [product_id |-> 0, quantity |-> 0, unit_price |-> 0,
                    discount |-> 0, subtotal |-> 0, obj |-> 0]
  /\ itemRow = [quantity |-> 0, unit_price |-> 0, discount |-> 0]
  /\ itemTotal = 0

\* A line just added for a product, and a row just added by addQuoteItem.
CalcInit ==
  /\ \E unit_price \in TypedHundredths :
       builderLine = [product_id |-> 1, quantity |-> 1, unit_price |-> unit_price,
                      discount |-> 0, subtotal |-> LineSubtotal(1, unit_price, 0),
                      obj |-> 0]
  /\ itemRow = [quantity |-> 1, unit_price |-> 0, discount |-> 0]
  /\ itemTotal = 0

\* Quotes: handleUpdateLine on the line
Calc_handleUpdateLine(field, value) ==
  /\ builderLine' = UpdatedLine(builderLine, field, value)
  /\ UNCHANGED <<itemRow, itemTotal>>

\* dashboard.js: onchange of an input of the row, updateItemTotal(rowIndex)
Calc_updateItemTotal(field, value) ==
  /\ itemRow' = [itemRow EXCEPT ![field] = value]
  /\ itemTotal' = Static_formatNumber(updateItemTotal(itemRow'))
  /\ UNCHANGED builderLine

\* ----------------------------------------------------------------------
\*  C19: the stored subtotal of a quote line equals
\*  quantity * price * (1 - discount/100) rounded to two decimal places,
\*  for every quantity, price with up to two decimals and integer discount
\*  percent between 0 and 100.
\* ----------------------------------------------------------------------
C19_Round2(amount) == ((amount + 500) \div 1000) * 1000

C19_Exact(line) == line.quantity * line.unit_price * (100 - line.discount) * 10

C19_SubtotalRounded ==
  /\ builderLine.subtotal = C19_Round2(C19_Exact(builderLine))
  /\ itemTotal = C19_Round2(C19_Exact(itemRow))

\* ----------------------------------------------------------------------
\*  C20: after every auth operation (token restore at startup, login,
\*  logout, failed profile fetch, 401 answer) the API client's token equals
\*  the token in local storage, and every request sent through the client
\*  carries the client's token as its bearer token, and none when the
\*  client holds no token.
\* ----------------------------------------------------------------------
C20_TokenInSync == token = localStorage_token

\* The requests a step sends are those of authReqs' that authReqs lacks and
\* whose caller is mounted.
C20_HeaderFromToken ==
  \A r \in authReqs' \ authReqs : r.mounted /\ r.via = "axios" => r.auth = token'

C20_ClientTokenIsStoredToken == []C20_TokenInSync /\ [][C20_HeaderFromToken]_vars

\* A login replaced the token the session started with, and the profile
\* request that follows it carries the new token.
C20_Witness ==
  /\ token = "tokB"
  /\ localStorage_token = "tokB"
  /\ \E r \in authReqs : r.op = "getCurrentUser" /\ r.auth = "tokB"
  /\ \E r \in authReqs : r.op = "fetchUserProfile" /\ r.auth = "tokA"

\* ----------------------------------------------------------------------
\*  C21: closing the quote dialog without saving leaves the loaded quotes
\*  list unchanged: no add-product, edit-line or remove-line operation made
\*  in the dialog, and no Cancel, changes the lines of a quote of the list,
\*  so that the list after Cancel, and what a re-open shows, is the list
\*  from before the dialog was opened.
\* ----------------------------------------------------------------------
C21_BuilderStep ==
  \/ Quotes_handleAddProduct
  \/ Quotes_editLineField
  \/ \E productId \in ProductIds : Quotes_handleRemoveProduct(productId)
  \/ Quotes_handleCloseDialog

C21_CancelLeavesQuotes == [][C21_BuilderStep => quotes' = quotes]_vars

\* ----------------------------------------------------------------------
\*  C24: if login(username, password) returns false, whatever the reason
\*  (no access_token, login request failed, or the profile request after a
\*  successful login failed), then afterwards no token is held in local
\*  storage or in the API client and user is null.
\* ----------------------------------------------------------------------
C24_LoginReturnsFalse ==
  \E r \in authReqs, status \in Statuses, access_token \in {""} \cup Tokens :
    /\ Answer(r, status, access_token)
    /\ \/ r.op = "login" /\ ~(status = 200 /\ access_token # "")
       \/ r.op = "getCurrentUser" /\ status # 200

C24_FailedLoginHoldsNothing ==
  [][C24_LoginReturnsFalse => localStorage_token' = "" /\ token' = "" /\ user' = ""]_vars

\* ----------------------------------------------------------------------
\*  C25: once login has returned true, the stored token and user stay set
\*  until logout is called or a request made with that new token is
\*  answered 401; in particular, a startup profile check that was sent with
\*  an older stored token and is still pending when the login completes
\*  does not, on failing, clear the newly stored token.
\* ----------------------------------------------------------------------
C25_SignedIn == user # "" /\ localStorage_token # "" /\ token = localStorage_token

C25_AnswerStep ==
  \A r \in authReqs, status \in Statuses, access_token \in {""} \cup Tokens :
    ( /\ C25_SignedIn
      /\ r.op # "login"
      /\ ~(status = 401 /\ r.auth = token)
      /\ Answer(r, status, access_token) )
    => /\ localStorage_token' = localStorage_token
       /\ token' = token
       /\ user' = user

C25_SessionSurvivesStaleCheck == [][C25_AnswerStep]_vars

\* ----------------------------------------------------------------------
\*  C27: Layout redirects to /login only when the user is not
\*  authenticated: when the application is loaded on a protected route with
\*  a stored token, no navigation to /login happens while the token check
\*  is still pending (isLoading true), and protected page content is
\*  rendered only while user is non-null.
\* ----------------------------------------------------------------------
C27_ContentOnlyForUser ==
  \A r \in authReqs : r.op \in {"loadData", "print", "pdf"} /\ r.mounted => user # ""

C27_LoadedOnProtectedRoute ==
  (Browser_reload /\ location # "/login" /\ localStorage_token # "")
    => (isLoading' => location' = location)

C27_NoRedirectWhileLoading ==
  []C27_ContentOnlyForUser /\ [][C27_LoadedOnProtectedRoute]_vars

\* ----------------------------------------------------------------------
\*  C28: a user whose can_manage_deposits permission is false cannot issue
\*  any deposit mutation from the Deposits page: neither create-deposit nor
\*  apply-to-invoice nor refund requests are reachable for that user.
\* ----------------------------------------------------------------------
C28_NoMutationWithoutPermission == ~canManageDeposits => depReq = <<>>

\* ----------------------------------------------------------------------
\*  C29: only administrators can modify the company configuration: for a
\*  user of any other role, handleSave issues no create or update request
\*  for company settings and sets the permission error instead.
\* ----------------------------------------------------------------------
C29_SaveByOtherRole ==
  (role # "admin" /\ CompanySettings_handleSave)
    => /\ csReq' = csReq
       /\ csError' = "No tienes permisos para modificar la configuración"

C29_OnlyAdministratorsSave == [][C29_SaveByOtherRole]_vars

\* ======================================================================
\*  The quote form of the static application (dashboard.js 1293-1460).
\*  Amounts typed into the form and item totals are whole guaranies; the
\*  amounts of the summary are kept in thousandths, the three fraction
\*  digits formatNumber shows.
\* ======================================================================
\* The value of an input that holds no text.
EmptyInput == 0 - 1

\* allProducts: product id -> selling_price.
allProducts == <<150, 50000>>

\* parseFloat(value) || 0 of an input's value.
parseFloat(value) == IF value = EmptyInput THEN 0 ELSE value

\* The first row, in document order, whose elements carry the names and the
\* id numbered rowIndex (document.querySelector, document.getElementById);
\* 0 when there is none.
querySelector(rows, rowIndex) ==
  IF \E p \in DOMAIN rows : rows[p].rowCount = rowIndex
  THEN CHOOSE p \in DOMAIN rows :
         /\ rows[p].rowCount = rowIndex
         /\ \A q \in 1..(p - 1) : rows[q].rowCount # rowIndex
  ELSE 0

\* What updateQuoteTotal reads back, in thousandths, from the text that
\* formatNumber wrote for a whole item total: es-PY groups the digits with
\* "." and the expression keeps the "." as a decimal point, and parseFloat
\* stops at a second ".".  (The amounts of the form stay below a thousand
\* or have five digits or more.)
readItemTotal(total) ==
  IF total < 1000 THEN total * 1000
  ELSE IF total < 1000 * 1000 THEN total
  ELSE total \div 1000

\* updateItemTotal(rowIndex) on the rows of the table: the item total of
\* the first row numbered rowIndex is rewritten from that row's inputs.
Form_updateItemTotal(rows, rowIndex) ==
  LET p == querySelector(rows, rowIndex)
      quantity == parseFloat(rows[p].quantity)
      unitPrice == parseFloat(rows[p].unit_price)
      discount == parseFloat(rows[p].discount)
      subtotal == quantity * unitPrice
      discountAmount == (subtotal * discount) \div 100
      total == subtotal - discountAmount
  IN [rows EXCEPT ![p].itemTotal = total]

RECURSIVE SumItemTotals(_, _)
\* The loop of updateQuoteTotal from index i on.
SumItemTotals(rows, i) ==
  IF i >= Len(rows) THEN 0
  ELSE (IF querySelector(rows, i) # 0
        THEN readItemTotal(rows[querySelector(rows, i)].itemTotal)
        ELSE 0) + SumItemTotals(rows, i + 1)

\* updateQuoteTotal: the three amounts written to the summary.
updateQuoteTotal(rows) ==
  LET subtotal == SumItemTotals(rows, 0)
      tax == subtotal \div 10
      total == subtotal + tax
  IN [quoteSubtotal |-> subtotal, quoteTax |-> tax, quoteTotal |-> total]

RECURSIVE CollectItems(_, _)
\* The loop of handleAddQuote from index i on.
CollectItems(rows, i) ==
  IF i >= Len(rows) THEN <<>>
  ELSE LET p == querySelector(rows, i)
       IN (IF /\ p # 0
              /\ rows[p].product_id # 0
              /\ rows[p].quantity # EmptyInput
              /\ rows[p].unit_price # EmptyInput
           THEN <<[product_id |-> rows[p].product_id,
                   quantity |-> rows[p].quantity,
                   unit_price |-> rows[p].unit_price,
                   discount_percentage |-> parseFloat(rows[p].discount)]>>
           ELSE <<>>) \o CollectItems(rows, i + 1)

FormAtRest ==
  /\ qfOpen = FALSE
  /\ qfRows = <<>>
  /\ qfShown = updateQuoteTotal(<<>>)
  /\ qfReq = {}
  /\ qfNotice = ""

QuoteForm_openAddQuoteModal ==
  /\ ~qfOpen
  /\ qfRows' = <<>>
  /\ qfShown' = updateQuoteTotal(<<>>)
  /\ qfOpen' = TRUE
  /\ UNCHANGED <<qfReq, qfNotice>>

QuoteForm_addQuoteItem ==
  /\ qfOpen
  /\ Len(qfRows) < MaxRows
  /\ qfRows' = Append(qfRows, [rowCount |-> Len(qfRows), product_id |-> 0, quantity |-> 1,
                               unit_price |-> EmptyInput, discount |-> 0, itemTotal |-> 0])
  /\ UNCHANGED <<qfOpen, qfShown, qfReq, qfNotice>>

QuoteForm_removeQuoteItem(pos) ==
  /\ qfOpen
  /\ pos \in DOMAIN qfRows
  /\ LET rows == [q \in 1..(Len(qfRows) - 1) |-> IF q < pos THEN qfRows[q] ELSE qfRows[q + 1]]
     IN /\ qfRows' = rows
        /\ qfShown' = updateQuoteTotal(rows)
  /\ UNCHANGED <<qfOpen, qfReq, qfNotice>>

\* The select of the row at pos is changed to value.
QuoteForm_updateItemPrice(pos, value) ==
  /\ qfOpen
  /\ pos \in DOMAIN qfRows
  /\ LET rowIndex == qfRows[pos].rowCount
         selected == [qfRows EXCEPT ![pos].product_id = value]
     IN IF value # 0
        THEN LET priced == [selected EXCEPT
                              ![querySelector(selected, rowIndex)].unit_price = allProducts[value]]
                 rows == Form_updateItemTotal(priced, rowIndex)
             IN /\ qfRows' = rows
                /\ qfShown' = updateQuoteTotal(rows)
        ELSE /\ qfRows' = selected
             /\ UNCHANGED qfShown
  /\ UNCHANGED <<qfOpen, qfReq, qfNotice>>

\* An input of the row at pos is changed to value.
QuoteForm_updateItemTotal(pos, field, value) ==
  /\ qfOpen
  /\ pos \in DOMAIN qfRows
  /\ LET typed == [qfRows EXCEPT ![pos][field] = value]
         rows == Form_updateItemTotal(typed, qfRows[pos].rowCount)
     IN /\ qfRows' = rows
        /\ qfShown' = updateQuoteTotal(rows)
  /\ UNCHANGED <<qfOpen, qfReq, qfNotice>>

QuoteForm_handleAddQuote ==
  /\ qfOpen
  /\ qfReq = {}
  /\ LET items == CollectItems(qfRows, 0)
     IN IF Len(items) = 0
        THEN /\ qfNotice' = "warning"
             /\ UNCHANGED qfReq
        ELSE /\ qfReq' = {items}
             /\ UNCHANGED qfNotice
  /\ UNCHANGED <<qfOpen, qfRows, qfShown>>

QuoteForm_handleAddQuote_answered(ok) ==
  /\ qfReq # {}
  /\ qfReq' = {}
  /\ IF ok
     THEN /\ qfOpen' = FALSE
          /\ qfNotice' = "success"
     ELSE /\ qfNotice' = "error"
          /\ UNCHANGED qfOpen
  /\ UNCHANGED <<qfRows, qfShown>>

\* ----------------------------------------------------------------------
\*  C22: in the static quote form, after any sequence of addQuoteItem,
\*  updateItemTotal and removeQuoteItem, the displayed quote subtotal is
\*  the sum of the item totals of exactly the rows present in the table,
\*  the displayed tax is 10% of that subtotal and the displayed total is
\*  their sum.
\* ----------------------------------------------------------------------
RECURSIVE C22_SumRows(_)
C22_SumRows(rows) ==
  IF rows = <<>> THEN 0 ELSE Head(rows).itemTotal * 1000 + C22_SumRows(Tail(rows))

C22_SummaryOfRowsPresent ==
  qfOpen =>
    /\ qfShown.quoteSubtotal = C22_SumRows(qfRows)
    /\ qfShown.quoteTax = qfShown.quoteSubtotal \div 10
    /\ qfShown.quoteTotal = qfShown.quoteSubtotal + qfShown.quoteTax

\* ----------------------------------------------------------------------
\*  C23: in the static quote form, after any sequence of addQuoteItem and
\*  removeQuoteItem, handleAddQuote submits exactly one item for each row
\*  present that has a product, a quantity and a unit price, carrying that
\*  row's own values, and it rejects the submission with the 'at least one
\*  product' warning only when no such row is present.
\* ----------------------------------------------------------------------
RECURSIVE C23_ItemsOfRows(_)
C23_ItemsOfRows(rows) ==
  IF rows = <<>> THEN <<>>
  ELSE (IF /\ Head(rows).product_id # 0
           /\ Head(rows).quantity # EmptyInput
           /\ Head(rows).unit_price # EmptyInput
        THEN <<[product_id |-> Head(rows).product_id,
                quantity |-> Head(rows).quantity,
                unit_price |-> Head(rows).unit_price,
                discount_percentage |-> parseFloat(Head(rows).discount)]>>
        ELSE <<>>) \o C23_ItemsOfRows(Tail(rows))

C23_SubmitStep ==
  QuoteForm_handleAddQuote =>
    IF C23_ItemsOfRows(qfRows) = <<>>
    THEN qfNotice' = "warning" /\ qfReq' = {}
    ELSE qfReq' = {C23_ItemsOfRows(qfRows)} /\ qfNotice' = qfNotice

C23_SubmitsRowsPresent == [][C23_SubmitStep]_vars

\* ======================================================================
\*  The analytics dashboard of the static application (dashboard.js 1-612).
\* ======================================================================
DashPanelNames == {"metrics", "salesTrend", "products", "inventory"}

\* The message of the error apiCall throws for an answer, "" when it
\* returns the data.
Dashboard_apiCall(status) ==
  IF status = 401 \/ status = 403 THEN "Authentication failed"
  ELSE IF status # 200 THEN "HTTP"
  ELSE ""

\* The message of the error that leaves loadOverviewData and loadSalesTrend:
\* the catch of each handles whatever apiCall threw and returns.
Dashboard_loadOverviewData(status) == ""

Dashboard_loadSalesTrend(status) == ""

DashAtRest ==
  /\ dashStoredToken = ""
  /\ dashLocation = "/"
  /\ dashPending = {}
  /\ dashPanels = [n \in DashPanelNames |-> ""]
  /\ dashSection = "overview"

DashInit ==
  /\ dashStoredToken \in {"", "tokA"}
  /\ dashLocation = "/"
  /\ dashPending = {}
  /\ dashPanels = [n \in DashPanelNames |-> ""]
  /\ dashSection = "overview"

\* The dashboard document is loaded: DOMContentLoaded runs checkAuthAndInit
\* up to its first await.
Dashboard_checkAuthAndInit ==
  /\ dashLocation = "/"
  /\ IF dashStoredToken = ""
     THEN UNCHANGED dashVars
     ELSE /\ dashLocation' = "/dashboard"
          /\ dashPending' = {[endpoint |-> "overview", panel |-> "metrics",
                              caller |-> "checkAuthAndInit", auth |-> dashStoredToken]}
          /\ dashPanels' = [n \in DashPanelNames |-> ""]
          /\ dashSection' = "overview"
          /\ UNCHANGED dashStoredToken

\* A call made by checkAuthAndInit is answered: the loader finishes and
\* checkAuthAndInit goes on to its next step or to its catch.
Dashboard_checkAuthAndInit_answered(r, status) ==
  /\ dashLocation = "/dashboard"
  /\ r \in dashPending
  /\ r.caller = "checkAuthAndInit"
  /\ LET shown == [dashPanels EXCEPT
                     ![r.panel] = IF Dashboard_apiCall(status) = "" THEN "rendered" ELSE "error"]
         error == IF r.endpoint = "overview" THEN Dashboard_loadOverviewData(status)
                  ELSE Dashboard_loadSalesTrend(status)
     IN IF error = "Authentication failed"
        THEN /\ dashStoredToken' = ""
             /\ dashLocation' = "/"
             /\ dashPending' = {}
             /\ dashPanels' = [n \in DashPanelNames |-> ""]
             /\ dashSection' = "overview"
        ELSE /\ dashPanels' = shown
             /\ dashPending' =
                  (dashPending \ {r}) \cup
                  (IF error = "" /\ r.endpoint = "overview"
                   THEN {[endpoint |-> "sales-trend", panel |-> "salesTrend",
                          caller |-> "checkAuthAndInit", auth |-> r.auth]}
                   ELSE {})
             /\ UNCHANGED <<dashStoredToken, dashLocation, dashSection>>

\* A navigation link is clicked: showSection, then loadSectionData.
Dashboard_showSection(sectionName) ==
  /\ dashLocation = "/dashboard"
  /\ dashSection' = sectionName
  /\ dashPending' =
       dashPending \cup
       (CASE sectionName = "products" ->
               {[endpoint |-> "top-products", panel |-> "products",
                 caller |-> "loadSectionData", auth |-> dashStoredToken]}
          [] sectionName = "inventory" ->
               {[endpoint |-> "inventory-status", panel |-> "inventory",
                 caller |-> "loadSectionData", auth |-> dashStoredToken]}
          [] OTHER -> {})
  /\ UNCHANGED <<dashStoredToken, dashLocation, dashPanels>>

\* A call made by loadTopProducts or loadInventoryStatus is answered.
Dashboard_loadSectionData_answered(r, status) ==
  /\ dashLocation = "/dashboard"
  /\ r \in dashPending
  /\ r.caller = "loadSectionData"
  /\ dashPanels' = [dashPanels EXCEPT
                      ![r.panel] =
                         IF Dashboard_apiCall(status) = "" THEN "rendered" ELSE "error"]
  /\ dashPending' = dashPending \ {r}
  /\ UNCHANGED <<dashStoredToken, dashLocation, dashSection>>

\* The browser leaves the dashboard document for the start page.
Dashboard_leave ==
  /\ dashLocation = "/dashboard"
  /\ dashLocation' = "/"
  /\ dashPending' = {}
  /\ dashPanels' = [n \in DashPanelNames |-> ""]
  /\ dashSection' = "overview"
  /\ UNCHANGED dashStoredToken

\* ----------------------------------------------------------------------
\*  C26: in the static analytics dashboard, when an API call made during
\*  initialization (overview or sales-trend load) is answered 401 or 403,
\*  the stored authToken is removed from local storage and the browser is
\*  redirected to '/'.
\* ----------------------------------------------------------------------
C26_AuthFailureDuringInit ==
  \E r \in dashPending, status \in {401, 403} :
    Dashboard_checkAuthAndInit_answered(r, status)

C26_AuthFailureSignsOut ==
  [][C26_AuthFailureDuringInit => dashStoredToken' = "" /\ dashLocation' = "/"]_vars

\* ======================================================================
\*  Specifications: one page at a time, the others at rest
\* ======================================================================
\* The other pages and the session are at rest while the quote page acts.
QuoteFrame == UNCHANGED <<depositVars, authVars, settingsVars, customerVars, expiryVars,
             calcVars, formVars, dashVars>>

QuoteNext ==
  \/ QuoteFrame /\ Quotes_loadData
  \/ QuoteFrame /\ \E quote \in DOMAIN quotes \cup {0} : Quotes_handleOpenDialog(quote)
  \/ QuoteFrame /\ Quotes_handleCloseDialog
  \/ QuoteFrame /\ \E value \in DOMAIN products \cup {0} : Quotes_setSelectedProduct(value)
  \/ QuoteFrame /\ \E value \in TypedQuantities : Quotes_setProductQuantity(value)
  \/ QuoteFrame /\ \E value \in TypedDiscounts : Quotes_setProductDiscount(value)
  \/ QuoteFrame /\ \E value \in {0, 1} : Quotes_setCustomer(value)
  \/ QuoteFrame /\ Quotes_handleAddProduct
  \/ QuoteFrame /\ \E productId \in ProductIds : Quotes_handleRemoveProduct(productId)
  \/ QuoteFrame /\ Quotes_editLineField
  \/ QuoteFrame /\ Quotes_handleSubmit
  \/ QuoteFrame /\ Quotes_handleSubmit_saved
  \/ QuoteFrame /\ Quotes_handleSubmit_failed

QuoteSpecInit ==
  /\ QuoteInit /\ DepositInit /\ canManageDeposits /\ AuthAtRest /\ SettingsAtRest
  /\ ClockAtRest /\ CustomersAtRest /\ ExpiryAtRest /\ CalcAtRest /\ FormAtRest /\ DashAtRest

SpecQuote == QuoteSpecInit /\ [][QuoteNext]_vars

\* The other pages and the session are at rest while the deposit page acts.
DepositFrame == UNCHANGED <<quoteVars, authVars, settingsVars, customerVars, expiryVars,
             calcVars, formVars, dashVars>>

DepositNext ==
  \/ DepositFrame /\ Deposits_loadData
  \/ DepositFrame /\ Deposits_handleOpenDialog
  \/ DepositFrame /\ Deposits_handleCloseDialog
  \/ DepositFrame /\ \E value \in {0, 1} : Deposits_setFormData("customer_id", value)
  \/ DepositFrame /\ \E value \in TypedDepositAmounts : Deposits_setFormData("amount", value)
  \/ DepositFrame /\ Deposits_handleSubmit
  \/ DepositFrame /\ \E row \in 1..Len(deposits), action \in {"apply", "refund"} :
       Deposits_handleOpenActionDialog(row, action)
  \/ DepositFrame /\ Deposits_handleCloseActionDialog
  \/ DepositFrame /\ \E value \in TypedActionAmounts : Deposits_setActionData("amount", value)
  \/ DepositFrame /\ \E value \in TypedInvoiceIds : Deposits_setActionData("invoice_id", value)
  \/ DepositFrame /\ \E value \in TypedReasons : Deposits_setActionData("reason", value)
  \/ DepositFrame /\ Deposits_handleApplyDeposit
  \/ DepositFrame /\ Deposits_handleRefundDeposit
  \/ DepositFrame /\ Deposits_requestSucceeds
  \/ DepositFrame /\ Deposits_requestFails
  \/ DepositFrame /\ \E amount \in TypedDepositAmounts : Other_createDeposit(amount)
  \/ DepositFrame /\ \E id \in 1..Len(srvDeposits), invoice_id \in 1..Len(srvInvoices), amount \in OtherAmounts :
       Other_applyDepositToInvoice(id, invoice_id, amount)
  \/ DepositFrame /\ \E id \in 1..Len(srvDeposits), amount \in OtherAmounts : Other_refundDeposit(id, amount)

DepositSpecInit ==
  /\ DepositInit /\ QuoteInit /\ AuthAtRest /\ SettingsAtRest
  /\ ClockAtRest /\ CustomersAtRest /\ ExpiryAtRest /\ CalcAtRest /\ FormAtRest /\ DashAtRest

SpecDeposit == DepositSpecInit /\ [][DepositNext]_vars

AuthSpecInit ==
  /\ AuthInit /\ QuoteInit /\ DepositInit /\ canManageDeposits /\ SettingsAtRest
  /\ ClockAtRest /\ CustomersAtRest /\ ExpiryAtRest /\ CalcAtRest /\ FormAtRest /\ DashAtRest

SpecAuth == AuthSpecInit /\ [][AuthNext]_vars

SettingsFrame == UNCHANGED <<quoteVars, depositVars, authVars, customerVars, expiryVars,
             calcVars, formVars, dashVars>>

SettingsNext ==
  \/ SettingsFrame /\ CompanySettings_loadCompanySettings
  \/ SettingsFrame /\ CompanySettings_loadCompanySettings_loaded
  \/ SettingsFrame /\ \E failure \in Failures :
       CompanySettings_loadCompanySettings_failed(failure)
  \/ SettingsFrame /\ \E field \in DOMAIN TypedSettings, value \in UNION {TypedSettings[f] : f \in DOMAIN TypedSettings} :
       value \in TypedSettings[field] /\ CompanySettings_handleInputChange(field, value)
  \/ SettingsFrame /\ CompanySettings_handleSave
  \/ SettingsFrame /\ CompanySettings_handleSave_saved
  \/ SettingsFrame /\ \E failure \in Failures : CompanySettings_handleSave_failed(failure)
  \/ SettingsFrame /\ CompanySettings_clearSuccess

SettingsSpecInit ==
  /\ SettingsInit /\ QuoteInit /\ DepositInit /\ canManageDeposits /\ AuthAtRest
  /\ ClockAtRest /\ CustomersAtRest /\ ExpiryAtRest /\ CalcAtRest /\ FormAtRest /\ DashAtRest

SpecSettings == SettingsSpecInit /\ [][SettingsNext]_vars

CustomersFrame ==
  UNCHANGED <<quoteVars, depositVars, authVars, settingsVars, expiryVars, calcVars,
              formVars, dashVars>>

CustomersNext ==
  \/ CustomersFrame /\ \E i \in DOMAIN custReq, ok \in BOOLEAN, data \in CustomerLists :
       Customers_loadCustomers_done(i, ok, data)
  \/ CustomersFrame /\ \E row \in DOMAIN customers \cup {0} : Customers_handleOpenDialog(row)
  \/ CustomersFrame /\ Customers_handleCloseDialog
  \/ CustomersFrame /\ \E value \in TypedCompanyNames : Customers_setFormData("company_name", value)
  \/ CustomersFrame /\ \E value \in TypedExpiryDates :
       Customers_setFormData("tourism_regime_expiry", value)
  \/ CustomersFrame /\ Customers_toggleRegime
  \/ CustomersFrame /\ \E file \in Files \cup {NoFile} : Customers_handleFileSelect(file)
  \/ CustomersFrame /\ Customers_handleSubmit
  \/ CustomersFrame /\ \E i \in DOMAIN custReq, id \in {3} : Customers_handleSubmit_saved(i, id)
  \/ CustomersFrame /\ \E i \in DOMAIN custReq : Customers_handleSubmit_failed(i)
  \/ CustomersFrame /\ \E i \in DOMAIN custReq, ok \in BOOLEAN : Customers_handleSubmit_uploaded(i, ok)

CustomersSpecInit ==
  /\ CustomersInit /\ QuoteInit /\ DepositInit /\ canManageDeposits /\ AuthAtRest
  /\ SettingsAtRest /\ ExpiryAtRest /\ CalcAtRest /\ FormAtRest /\ DashAtRest

SpecCustomers == CustomersSpecInit /\ [][CustomersNext]_vars

ExpiryFrame ==
  UNCHANGED <<quoteVars, depositVars, authVars, settingsVars, calcVars, formVars, dashVars>>

ExpiryNext ==
  \/ ExpiryFrame /\ \E dateString \in ExpiryDates : Row_setExpiryDate(dateString)
  \/ ExpiryFrame /\ Customers_renderRegimeChip
  \/ ExpiryFrame /\ Products_renderExpiryChip

ExpirySpecInit ==
  /\ ExpiryInit /\ CustomersAtRest /\ QuoteInit /\ DepositInit /\ canManageDeposits
  /\ AuthAtRest /\ SettingsAtRest /\ CalcAtRest /\ FormAtRest /\ DashAtRest

SpecExpiry == ExpirySpecInit /\ [][ExpiryNext]_vars

CalcFrame ==
  UNCHANGED <<quoteVars, depositVars, authVars, settingsVars, customerVars, expiryVars,
              formVars, dashVars>>

CalcNext ==
  \/ CalcFrame /\ \E value \in TypedItemQuantities : Calc_handleUpdateLine("quantity", value)
  \/ CalcFrame /\ \E value \in TypedHundredths : Calc_handleUpdateLine("unit_price", value)
  \/ CalcFrame /\ \E value \in TypedPercents : Calc_handleUpdateLine("discount", value)
  \/ CalcFrame /\ \E value \in TypedItemQuantities : Calc_updateItemTotal("quantity", value)
  \/ CalcFrame /\ \E value \in TypedHundredths : Calc_updateItemTotal("unit_price", value)
  \/ CalcFrame /\ \E value \in TypedPercents : Calc_updateItemTotal("discount", value)

CalcSpecInit ==
  /\ CalcInit /\ QuoteInit /\ DepositInit /\ canManageDeposits /\ AuthAtRest
  /\ SettingsAtRest /\ ClockAtRest /\ CustomersAtRest /\ ExpiryAtRest
  /\ FormAtRest /\ DashAtRest

SpecCalc == CalcSpecInit /\ [][CalcNext]_vars

FormFrame ==
  UNCHANGED <<quoteVars, depositVars, authVars, settingsVars, customerVars, expiryVars,
              calcVars, dashVars>>

FormNext ==
  \/ FormFrame /\ QuoteForm_openAddQuoteModal
  \/ FormFrame /\ QuoteForm_addQuoteItem
  \/ FormFrame /\ \E pos \in 1..MaxRows : QuoteForm_removeQuoteItem(pos)
  \/ FormFrame /\ \E pos \in 1..MaxRows, value \in {0} \cup DOMAIN allProducts :
                    QuoteForm_updateItemPrice(pos, value)
  \/ FormFrame /\ \E pos \in 1..MaxRows, value \in {2} :
                    QuoteForm_updateItemTotal(pos, "quantity", value)
  \/ FormFrame /\ \E pos \in 1..MaxRows, value \in {10} :
                    QuoteForm_updateItemTotal(pos, "discount", value)
  \/ FormFrame /\ QuoteForm_handleAddQuote
  \/ FormFrame /\ \E ok \in BOOLEAN : QuoteForm_handleAddQuote_answered(ok)

FormSpecInit ==
  /\ FormAtRest /\ QuoteInit /\ DepositInit /\ canManageDeposits /\ AuthAtRest
  /\ SettingsAtRest /\ ClockAtRest /\ CustomersAtRest /\ ExpiryAtRest /\ CalcAtRest
  /\ DashAtRest

SpecForm == FormSpecInit /\ [][FormNext]_vars

DashFrame ==
  UNCHANGED <<quoteVars, depositVars, authVars, settingsVars, customerVars, expiryVars,
              calcVars, formVars>>

DashNext ==
  \/ DashFrame /\ Dashboard_checkAuthAndInit
  \/ DashFrame /\ \E r \in dashPending, status \in {200, 401, 403, 500} :
                    Dashboard_checkAuthAndInit_answered(r, status)
  \/ DashFrame /\ \E sectionName \in {"overview", "products", "inventory"} : Dashboard_showSection(sectionName)
  \/ DashFrame /\ \E r \in dashPending, status \in {200, 401, 403, 500} :
                    Dashboard_loadSectionData_answered(r, status)
  \/ DashFrame /\ Dashboard_leave

DashSpecInit ==
  /\ DashInit /\ QuoteInit /\ DepositInit /\ canManageDeposits /\ AuthAtRest
  /\ SettingsAtRest /\ ClockAtRest /\ CustomersAtRest /\ ExpiryAtRest /\ CalcAtRest
  /\ FormAtRest

SpecDash == DashSpecInit /\ [][DashNext]_vars

====
